---- MODULE Spec2Model ----
(***************************************************************************)
(* The container lifecycle daemon of jabberwocky-container-manager:        *)
(* ContainerManagerServer (main thread, accept thread), its per-connection *)
(* _SocketConnection handlers, the Container objects they share and the    *)
(* QEMU child processes those own.                                         *)
(***************************************************************************)
EXTENDS Integers, Sequences, FiniteSets, TLC

\* ---------------------------------------------------------------- bounds
NumWorkers == 2          \* connection-handler threads alive at once
MaxConn == 3             \* connections accepted during one daemon run
NumCli == 2              \* concurrent CLI invocations (run.py)

\* ------------------------------------------------------ program constants
max_retries == 25        \* Container.max_retries
PoweroffPolls == 15      \* range(15) in SSHInterface.send_poweroff

Names == {"a", "b"}
DirNames == Names \cup {"b-c"}   \* names a directory can be renamed to
Workers == 1..NumWorkers
Clis == 1..NumCli
ObjIds == 1..MaxConn
NoObj == 0
ServerPid == 1           \* os.getpid() of the daemon this model follows
OsBoot == 1              \* psutil.boot_time()
Now == 2                 \* time.time() of this OS session
NoFile == [pid |-> 0, boot |-> 0]   \* the info file does not exist
ServerPortLow == 22300   \* allocate_port(22300) in ContainerManagerServer.listen
PortHigh == 65535        \* default high of allocate_port

VARIABLES
    containers,     \* ContainerManagerServer.containers: name -> object id (NoObj = no key)
    objs,           \* the Container objects ever constructed: id -> fields
    nobj,           \* number of Container objects constructed
    dirs,           \* container directories that exist (with their config.json)
    startup_mutex,  \* 0 = free, else the worker holding it
    halt_event,     \* threading.Event
    server_sock,    \* "open" | "closed"
    infoFile,       \* the daemon info file {pid, boot}, or NoFile
    mainpc,         \* position of the main thread (listen / stop)
    haltLen,        \* len(containers) when the shutdown iteration began
    haltVisited,    \* objects the shutdown iteration has yielded
    haltCur,        \* object the shutdown iteration is working on
    haltSnap,       \* history: the objects in the map when the iteration began
    acceptAlive,    \* the _listen thread is still in its accept loop
    nconn,          \* connections accepted so far
    cpc,            \* per CLI invocation (run.py main): position
    dpc,            \* per launched daemon process (server.py): position
    dport,          \* per launched daemon process: port of its address
    boundPorts,     \* TCP ports the OS reports as in use
    pc,             \* per worker: position in its handler
    op,             \* per worker: request keyword received
    arg,            \* per worker: container_name received
    ref,            \* per worker: the Container object its handler is running a method of
    exc,            \* per worker: exception that left the handler ("" = none)
    sent,           \* per worker: keywords sent after READY, in order
    startedSince,   \* history: a START inserted arg[w] after w's own del
    dirFiles,       \* per container directory: what its files and key pair hold
    wire,           \* per worker: the connection's exchange in order, sends and receives
    bridge,         \* per worker: the _RunCommandHandler of its RUN-COMMAND (threads, socket, guest)
    client,         \* a ContainerManagerClient method call: method, position, reply, outcome
    io,             \* one RUN-COMMAND connection after BEGIN: both ends, byte by byte
    boot,           \* one call of Container.start: its boot attempts and their ports
    cfg,            \* one ContainerConfig construction: manifest, outcome, round trip
    alloc,          \* one call of allocate_port: the range, the probes, the result
    frames,         \* the output pumps of the RUN-COMMAND sessions and their shared lock
    link            \* one connection of a client-library call: both ends and the messages in flight

vars == <<containers, objs, nobj, dirs, startup_mutex, halt_event, server_sock,
          infoFile, mainpc, haltLen, haltVisited, haltCur, haltSnap, acceptAlive,
          nconn, cpc, dpc, dport, boundPorts,
          pc, op, arg, ref, exc, sent, startedSince,
          dirFiles, wire, bridge, client, io, boot, cfg, alloc, frames, link>>

mainVars == <<halt_event, server_sock, infoFile, mainpc, haltLen, haltVisited,
              haltCur, haltSnap, acceptAlive>>
launchVars == <<cpc, dpc, dport, boundPorts>>
workerVars == <<pc, op, arg, ref, exc, sent>>
extVars == <<dirFiles, wire, bridge, client, io, boot, cfg, alloc, frames, link>>

\* A container directory: what wrote its files (config.json, the disk
\* image) and what wrote its key pair id_rsa / id_rsa.pub.
NoDir == [files |-> "none", id_rsa |-> "none"]
OrigDir == [files |-> "orig", id_rsa |-> "none"]

\* No RUN-COMMAND bridge exists.
NoBridge ==
    [pc |-> "none", t_recv |-> FALSE, t_send_stdout |-> FALSE,
     t_send_stderr |-> FALSE, t_send_null |-> FALSE, peer |-> "open",
     client_sock |-> "open", guest |-> "none", kills |-> 0, delivered |-> 0]

\* No client-library call is in progress.
NoCall == [method |-> "", step |-> "none", fields |-> 0, reply |-> <<>>, result |-> ""]

\* No RUN-COMMAND connection is followed byte by byte.
NoIo == [pc |-> "none"]

\* No call of Container.start is followed attempt by attempt.
NoBoot == [pc |-> "none"]

\* No ContainerConfig is being constructed.
NoCfg == [pc |-> "none"]

\* No call of allocate_port is followed probe by probe.
NoAlloc == [pc |-> "none"]
NoFrames == [pc |-> "none"]
NoLink == [pc |-> "none"]

\* A Container right after Container.__init__: booter is the class default
\* None, sshi and logging_file are annotations without a value.
NewContainer(n) ==
    [name |-> n, booter |-> "none", sshi |-> "unset", log |-> "unset"]

NoContainer == [name |-> "", booter |-> "none", sshi |-> "unset", log |-> "unset"]

Live == {n \in Names : containers[n] # NoObj}

\* Container objects constructed so far for name n.
Constructed(n) == {i \in 1..nobj : objs[i].name = n}

\* The daemon process is running (neither exited, crashed nor aborted).
DaemonUp == mainpc \notin {"exited", "crashed", "aborted"}

\* Requests of the dispatch table that the model follows.
NamedOps == {"START", "STOP", "KILL", "STARTED"}
Ops == NamedOps \cup {"HALT", "PANIC"}

\* Requests that change the container directories, and requests that work
\* on the guest of a running container.
FsOps == {"DELETE", "ARCHIVE", "RENAME", "INSTALL"}
GuestOps == {"UPDATE-HOSTKEY", "RUN-COMMAND"}

FirstPc(o) ==
    CASE o = "START" -> "start_isdir"
      [] o = "STOP" -> "stop_check"
      [] o = "KILL" -> "kill_check"
      [] o = "STARTED" -> "started"
      [] o = "HALT" -> "halt"
      [] o = "PANIC" -> "panic"
      [] o = "DELETE" -> "delete_isdir"
      [] o = "ARCHIVE" -> "archive_isdir"
      [] o = "RENAME" -> "rename_isdir"
      [] o = "INSTALL" -> "install"
      [] o = "UPDATE-HOSTKEY" -> "hostkey"
      [] o = "RUN-COMMAND" -> "run_check"

Init ==
    /\ containers = [n \in Names |-> NoObj]
    /\ objs = [i \in ObjIds |-> NoContainer]
    /\ nobj = 0
    /\ dirs \in {{"a", "b"}, {"a"}}
    /\ startup_mutex = 0
    /\ halt_event = FALSE
    /\ server_sock = "open"
    /\ infoFile = [pid |-> ServerPid, boot |-> Now]
    /\ mainpc = "wait"
    /\ haltLen = 0
    /\ haltVisited = {}
    /\ haltCur = NoObj
    /\ haltSnap = {}
    /\ acceptAlive = TRUE
    /\ nconn = 0
    /\ cpc = [c \in Clis |-> "done"]
    /\ dpc = [c \in Clis |-> "none"]
    /\ dport = [c \in Clis |-> 0]
    /\ boundPorts = {}
    /\ pc = [w \in Workers |-> "idle"]
    /\ op = [w \in Workers |-> "NONE"]
    /\ arg = [w \in Workers |-> "a"]
    /\ ref = [w \in Workers |-> NoObj]
    /\ exc = [w \in Workers |-> ""]
    /\ sent = [w \in Workers |-> <<>>]
    /\ startedSince = [w \in Workers |-> FALSE]
    /\ dirFiles = [n \in DirNames |-> IF n \in dirs THEN OrigDir ELSE NoDir]
    /\ wire = [w \in Workers |-> <<>>]
    /\ bridge = [w \in Workers |-> NoBridge]
    /\ client = NoCall
    /\ io = NoIo
    /\ boot = NoBoot
    /\ cfg = NoCfg /\ alloc = NoAlloc /\ frames = NoFrames /\ link = NoLink

\* ------------------------------------------------- handler thread plumbing

\* start_connection's except clauses: a KeyError leaving the handler is
\* answered with raise_unknown_request, anything else with raise_exception.
ReplyFor(e) == IF e = "KeyError" THEN "UNKNOWN_REQUEST" ELSE "EXCEPTION_OCCURED"

\* The handler returns after sending keyword kw; finally closes the socket.
Return(w, kw) ==
    /\ pc' = [pc EXCEPT ![w] = "done"]
    /\ sent' = [sent EXCEPT ![w] = Append(@, kw)]
    /\ ref' = [ref EXCEPT ![w] = NoObj]
    /\ UNCHANGED <<op, arg, exc>>

\* Exception e leaves the handler and is answered by start_connection.
Raise(w, e) ==
    /\ pc' = [pc EXCEPT ![w] = "done"]
    /\ sent' = [sent EXCEPT ![w] = Append(@, ReplyFor(e))]
    /\ exc' = [exc EXCEPT ![w] = e]
    /\ ref' = [ref EXCEPT ![w] = NoObj]
    /\ UNCHANGED <<op, arg>>

Goto(w, p) ==
    /\ pc' = [pc EXCEPT ![w] = p]
    /\ UNCHANGED <<op, arg, ref, exc, sent>>

\* The handler binds a Container object (self of the method it calls).
GotoWith(w, p, o) ==
    /\ pc' = [pc EXCEPT ![w] = p]
    /\ ref' = [ref EXCEPT ![w] = o]
    /\ UNCHANGED <<op, arg, exc, sent>>

\* _listen: accept() returns a connection and a handler thread is started;
\* the handler sends READY and receives the request keyword and its name.
Accept(w, o, n) ==
    /\ DaemonUp /\ acceptAlive /\ server_sock = "open"
    /\ pc[w] \in {"idle", "done"}
    /\ \A v \in Workers : v < w => pc[v] \notin {"idle", "done"}
    /\ nconn < MaxConn
    /\ nconn' = nconn + 1
    /\ pc' = [pc EXCEPT ![w] = FirstPc(o)]
    /\ op' = [op EXCEPT ![w] = o]
    /\ arg' = [arg EXCEPT ![w] = n]
    /\ ref' = [ref EXCEPT ![w] = NoObj]
    /\ exc' = [exc EXCEPT ![w] = ""]
    /\ sent' = [sent EXCEPT ![w] = <<>>]
    /\ startedSince' = [startedSince EXCEPT ![w] = FALSE]
    /\ UNCHANGED <<containers, objs, nobj, dirs, startup_mutex, mainVars, launchVars, extVars>>

\* ------------------------------------------------------ Container methods

\* Container.kill on object o: booter.kill(SIGABRT), sshi.close_all(),
\* logging_file.close().  booter None raises before anything is done; an
\* sshi that is missing or already closed raises after the process is dead.
KillRaises(o) == o.booter = "none" \/ o.sshi # "open"

KillResult(o) ==
    IF o.booter = "none" THEN o
    ELSE IF o.sshi # "open" THEN [o EXCEPT !.booter = "dead"]
    ELSE [o EXCEPT !.booter = "dead", !.sshi = "closed", !.log = "closed"]

\* SSHInterface.send_poweroff's wait: poll i of range(15) breaks when the
\* QEMU pid is gone (or a zombie, which is SIGKILLed), else sleeps; the
\* for-else raises PoweroffTimeoutExceededError.  exitAt is the first poll
\* at which the process is found gone.
RECURSIVE PollLoop(_, _)
PollLoop(i, exitAt) ==
    IF i = PoweroffPolls THEN "timeout"
    ELSE IF exitAt <= i THEN "exited"
    ELSE PollLoop(i + 1, exitAt)

\* SSHInterface.close_all followed by logging_file.close() (Container.stop
\* lines 123-124): raises AttributeError when the clients are already None.
CloseRaises(o) == o.sshi # "open"

CloseResult(o) == [o EXCEPT !.sshi = "closed", !.log = "closed"]

\* Acquire that does not wait for the holder.
Acquire_NoLock(w) == startup_mutex' = w

\* threading.Lock.acquire / release of the startup mutex.

Acquire(w) ==
    /\ startup_mutex = 0
    /\ startup_mutex' = w

\* An exit path that returns without releasing.
Release_Keep(w) == startup_mutex' = startup_mutex

Release(w) == startup_mutex' = 0

\* ------------------------------------------------------------ START (_start)

\* Lines 293-295: a missing directory is answered NO_SUCH_CONTAINER, and the
\* handler goes on (there is no return).
Start_IsDir(w) ==
    /\ DaemonUp /\ pc[w] = "start_isdir"
    /\ pc' = [pc EXCEPT ![w] = "start_acquire"]
    /\ sent' = [sent EXCEPT ![w] =
                  IF arg[w] \in dirs THEN @ ELSE Append(@, "NO_SUCH_CONTAINER")]
    /\ UNCHANGED <<op, arg, ref, exc>>
    /\ UNCHANGED <<containers, objs, nobj, dirs, startup_mutex, mainVars, nconn, launchVars, extVars,
                   startedSince>>

\* Line 297.
Start_Acquire(w) ==
    /\ DaemonUp /\ pc[w] = "start_acquire"
    /\ Acquire(w)
    /\ Goto(w, "start_check")
    /\ UNCHANGED <<containers, objs, nobj, dirs, mainVars, nconn, launchVars, extVars,
                   startedSince>>

\* Start_Check taking the absent branch whatever the map holds.
Start_Check_AlwaysNew(w) ==
    /\ DaemonUp /\ pc[w] = "start_check"
    /\ Goto(w, "start_new")
    /\ UNCHANGED <<containers, objs, nobj, startedSince, startup_mutex>>
    /\ UNCHANGED <<dirs, mainVars, nconn, launchVars, extVars>>

\* Lines 299 and 314-315: the membership test; a name that is in the map is
\* answered OK.
Start_Check(w) ==
    /\ DaemonUp /\ pc[w] = "start_check"
    /\ IF containers[arg[w]] # NoObj
       THEN /\ Return(w, "OK")
            /\ Release(w)
       ELSE /\ Goto(w, "start_new")
            /\ UNCHANGED startup_mutex
    /\ UNCHANGED <<containers, objs, nobj, startedSince>>
    /\ UNCHANGED <<dirs, mainVars, nconn, launchVars, extVars>>

\* Lines 302-304: Container(...) is constructed (FileNotFoundError when the
\* directory is missing) and stored in the map.
Start_New(w) ==
    /\ DaemonUp /\ pc[w] = "start_new"
    /\ IF arg[w] \notin dirs
       THEN /\ Raise(w, "FileNotFoundError")
            /\ Release(w)
            /\ UNCHANGED <<containers, objs, nobj, startedSince>>
       ELSE /\ nobj' = nobj + 1
            /\ objs' = [objs EXCEPT ![nobj + 1] = NewContainer(arg[w])]
            /\ containers' = [containers EXCEPT ![arg[w]] = nobj + 1]
            /\ startedSince' = [v \in Workers |->
                                  IF /\ arg[v] = arg[w]
                                     /\ op[v] \in {"STOP", "KILL"}
                                     /\ pc[v] \in {"stop_ok", "kill_ok", "done"}
                                  THEN TRUE ELSE startedSince[v]]
            /\ Goto(w, "start_call")
            /\ UNCHANGED startup_mutex
    /\ UNCHANGED <<dirs, mainVars, nconn, launchVars, extVars>>

\* Line 305: the map is looked up again and start() begins by opening the
\* boot log (container.py 60-62), which is a file of the container directory:
\* FileNotFoundError when the directory is gone.
Start_Call(w) ==
    /\ DaemonUp /\ pc[w] = "start_call"
    /\ IF containers[arg[w]] = NoObj
       THEN /\ Raise(w, "KeyError")
            /\ Release(w)
            /\ UNCHANGED objs
       ELSE IF arg[w] \notin dirs
       THEN /\ Raise(w, "FileNotFoundError")
            /\ Release(w)
            /\ UNCHANGED objs
       ELSE /\ objs' = [objs EXCEPT ![containers[arg[w]]].log = "open"]
            /\ GotoWith(w, "boot_spawn", containers[arg[w]])
            /\ UNCHANGED startup_mutex
    /\ UNCHANGED <<containers, nobj, dirs, mainVars, nconn, launchVars, extVars, startedSince>>

\* Which exceptions of Container.start the except BootFailure clause of
\* line 307 catches: the typed boot failures gen_boot_exception makes, and
\* the port error raised when the retries are used up.
IsBootFailure(e) == e \in {"BootFailure", "PortAllocationError"}

\* Container.start raised e: control is in the try of lines 300-306.
StartRaised(w, e) ==
    /\ pc' = [pc EXCEPT ![w] = "boot_failed"]
    /\ exc' = [exc EXCEPT ![w] = e]
    /\ UNCHANGED <<op, arg, ref, sent>>

\* PopenSpawn is given the container directory as cwd (container.py 67-69)
\* and raises FileNotFoundError when the directory is gone.
\* container.py 63-79, the boot loop up to the attempt that does not collide:
\* each iteration allocates a port and spawns QEMU; an attempt that ends in a
\* port collision (QEMU exits at once) sends the loop round.  BootLoop gives
\* the iteration whose QEMU stays up to be expected on, or max_retries when
\* the for-else raises PortAllocationError.
RECURSIVE BootLoop(_, _)
BootLoop(i, collisions) ==
    IF i = max_retries THEN max_retries
    ELSE IF collisions > i THEN BootLoop(i + 1, collisions)
    ELSE i

Boot_Spawn(w, collisions) ==
    /\ DaemonUp /\ pc[w] = "boot_spawn"
    /\ collisions \in 0..max_retries
    /\ IF objs[ref[w]].name \notin dirs
       THEN /\ StartRaised(w, "FileNotFoundError")
            /\ UNCHANGED objs
       ELSE IF BootLoop(0, collisions) = max_retries
       THEN /\ objs' = [objs EXCEPT ![ref[w]].booter = "dead"]
            /\ StartRaised(w, "PortAllocationError")
       ELSE /\ objs' = [objs EXCEPT ![ref[w]].booter = "alive"]
            /\ Goto(w, "boot_expect")
    /\ UNCHANGED <<containers, nobj, dirs, startup_mutex, mainVars, nconn, launchVars, extVars,
                   startedSince>>

\* container.py 70-77 for the attempt that does not collide: booter.expect.
\* outcome "login": the prompt was seen; "eof": QEMU exited; "timeout": no
\* prompt within the timeout.  Both failures raise a BootFailure.
Boot_Expect(w, outcome) ==
    /\ DaemonUp /\ pc[w] = "boot_expect"
    /\ outcome \in {"login", "eof", "timeout"}
    /\ objs[ref[w]].booter = "dead" => outcome = "eof"
    /\ CASE outcome = "login" ->
              /\ Goto(w, "ssh_open")
              /\ UNCHANGED objs
         [] outcome = "eof" ->
              /\ objs' = [objs EXCEPT ![ref[w]].booter = "dead"]
              /\ StartRaised(w, "BootFailure")
         [] outcome = "timeout" ->
              /\ StartRaised(w, "BootFailure")
              /\ UNCHANGED objs
    /\ UNCHANGED <<containers, nobj, dirs, startup_mutex, mainVars, nconn, launchVars, extVars,
                   startedSince>>

\* Lines 307-311, the except BootFailure clause: the map is looked up, the
\* container killed, the key deleted and BOOT_FAILURE sent; an exception on
\* the way, or one that is no BootFailure, leaves through lines 316-318.
Boot_Failed(w) ==
    /\ DaemonUp /\ pc[w] = "boot_failed"
    /\ Release(w)
    /\ IF ~IsBootFailure(exc[w])
       THEN /\ Raise(w, exc[w])
            /\ UNCHANGED <<containers, objs>>
       ELSE IF containers[arg[w]] = NoObj
       THEN /\ Raise(w, "KeyError")
            /\ UNCHANGED <<containers, objs>>
       ELSE LET o == containers[arg[w]] IN
            /\ objs' = [objs EXCEPT ![o] = KillResult(objs[o])]
            /\ IF KillRaises(objs[o])
               THEN /\ Raise(w, "AttributeError")
                    /\ UNCHANGED containers
               ELSE /\ containers' = [containers EXCEPT ![arg[w]] = NoObj]
                    /\ pc' = [pc EXCEPT ![w] = "done"]
                    /\ sent' = [sent EXCEPT ![w] = Append(@, "BOOT_FAILURE")]
                    /\ ref' = [ref EXCEPT ![w] = NoObj]
                    /\ UNCHANGED <<op, arg, exc>>
    /\ UNCHANGED <<nobj, dirs, mainVars, nconn, launchVars, extVars, startedSince>>

\* SSHInterface.update_hostkey (ssh.py 161-187) on an open session: the key
\* files of the container directory are replaced by a fresh pair, which is
\* authorised in the guest.  by names the caller.
update_hostkey(d, by) == [d EXCEPT !.id_rsa = by]

\* container.py 81-90 and server lines 306, 313, 320: the SSH session is
\* opened and the host key rotated; on success OK is sent and the mutex
\* released.  A paramiko or key-authorisation failure leaves through lines
\* 316-318 with the session created but not usable, a missing container
\* directory (the key files cannot be written) with the session open.
Ssh_Open(w, ok) ==
    /\ DaemonUp /\ pc[w] = "ssh_open"
    /\ ok \in BOOLEAN
    /\ objs[ref[w]].booter # "alive" => ~ok
    /\ Release(w)
    /\ IF ~ok
       THEN /\ objs' = [objs EXCEPT ![ref[w]].sshi = "unopened"]
            /\ Raise(w, "SSHException")
            /\ UNCHANGED dirFiles
       ELSE IF objs[ref[w]].name \notin dirs
       THEN /\ objs' = [objs EXCEPT ![ref[w]].sshi = "open"]
            /\ Raise(w, "FileNotFoundError")
            /\ UNCHANGED dirFiles
       ELSE /\ objs' = [objs EXCEPT ![ref[w]].sshi = "open"]
            /\ dirFiles' = [dirFiles EXCEPT ![objs[ref[w]].name] = update_hostkey(@, "start")]
            /\ Return(w, "OK")
    /\ UNCHANGED <<containers, nobj, dirs, mainVars, nconn, launchVars, wire, bridge, client,
                   io, boot, cfg, alloc, frames, link,
                   startedSince>>

\* ------------------------------------------------------ STARTED (_started)
Started(w) ==
    /\ DaemonUp /\ pc[w] = "started"
    /\ Return(w, IF containers[arg[w]] # NoObj THEN "YES" ELSE "NO")
    /\ UNCHANGED <<containers, objs, nobj, dirs, startup_mutex, mainVars, nconn, launchVars, extVars,
                   startedSince>>

\* -------------------------------------------------------------- STOP (_stop)

\* Stop_Check answering OK for a name that is not in the map.
Stop_Check_Ok(w) ==
    /\ DaemonUp /\ pc[w] = "stop_check"
    /\ IF containers[arg[w]] = NoObj
       THEN Return(w, "OK")
       ELSE Goto(w, "stop_call")
    /\ UNCHANGED <<containers, objs, nobj, dirs, startup_mutex, mainVars, nconn, launchVars, extVars,
                   startedSince>>

\* Lines 329-332.
Stop_Check(w) ==
    /\ DaemonUp /\ pc[w] = "stop_check"
    /\ IF containers[arg[w]] = NoObj
       THEN Return(w, "CONTAINER_NOT_STARTED")
       ELSE Goto(w, "stop_call")
    /\ UNCHANGED <<containers, objs, nobj, dirs, startup_mutex, mainVars, nconn, launchVars, extVars,
                   startedSince>>

\* Line 335 up to ssh.py 138-139: the map is looked up, Container.stop
\* evaluates self.sshi and self.booter.pid and runs poweroff in the guest.
\* sshErr: exec_command raises SSHException.
Stop_Call(w, sshErr) ==
    /\ DaemonUp /\ pc[w] = "stop_call"
    /\ sshErr \in BOOLEAN
    /\ IF containers[arg[w]] = NoObj
       THEN Raise(w, "KeyError")
       ELSE LET o == objs[containers[arg[w]]] IN
            /\ (o.sshi = "open" /\ o.booter # "alive") => sshErr
            /\ IF o.sshi # "open" THEN Raise(w, "AttributeError")
               ELSE IF sshErr THEN Raise(w, "SSHException")
               ELSE GotoWith(w, "stop_wait", containers[arg[w]])
    /\ UNCHANGED <<containers, objs, nobj, dirs, startup_mutex, mainVars, nconn, launchVars, extVars,
                   startedSince>>

\* ssh.py 141-150 and container.py 123-124: the poll loop, then close_all
\* and the boot log is closed.
Stop_Wait(w, exitAt) ==
    /\ DaemonUp /\ pc[w] = "stop_wait"
    /\ exitAt \in 0..PoweroffPolls
    /\ objs[ref[w]].booter # "alive" => exitAt = 0
    /\ IF PollLoop(0, exitAt) = "timeout"
       THEN /\ Raise(w, "PoweroffTimeoutExceededError")
            /\ UNCHANGED objs
       ELSE LET o == [objs[ref[w]] EXCEPT !.booter = "dead"] IN
            IF CloseRaises(o)
            THEN /\ objs' = [objs EXCEPT ![ref[w]] = o]
                 /\ Raise(w, "AttributeError")
            ELSE /\ objs' = [objs EXCEPT ![ref[w]] = CloseResult(o)]
                 /\ Goto(w, "stop_del")
    /\ UNCHANGED <<containers, nobj, dirs, startup_mutex, mainVars, nconn, launchVars, extVars,
                   startedSince>>

\* Handler_Del without the del.
Handler_Del_Skip(w, next) ==
    /\ startedSince' = [startedSince EXCEPT ![w] = FALSE]
    /\ Goto(w, next)
    /\ UNCHANGED <<containers, objs, nobj, dirs, startup_mutex, mainVars, nconn, launchVars, extVars>>

\* Line 336 (and 355 of _kill): del self.manager.containers[container_name].
Handler_Del(w, next) ==
    /\ IF containers[arg[w]] = NoObj
       THEN /\ Raise(w, "KeyError")
            /\ UNCHANGED <<containers, startedSince>>
       ELSE /\ containers' = [containers EXCEPT ![arg[w]] = NoObj]
            /\ startedSince' = [startedSince EXCEPT ![w] = FALSE]
            /\ Goto(w, next)
    /\ UNCHANGED <<objs, nobj, dirs, startup_mutex, mainVars, nconn, launchVars, extVars>>

Stop_Del(w) ==
    /\ DaemonUp /\ pc[w] = "stop_del"
    /\ Handler_Del(w, "stop_ok")

\* Line 337.
Stop_Ok(w) ==
    /\ DaemonUp /\ pc[w] = "stop_ok"
    /\ Return(w, "OK")
    /\ UNCHANGED <<containers, objs, nobj, dirs, startup_mutex, mainVars, nconn, launchVars, extVars,
                   startedSince>>

\* -------------------------------------------------------------- KILL (_kill)

\* Lines 348-351.
Kill_Check(w) ==
    /\ DaemonUp /\ pc[w] = "kill_check"
    /\ IF containers[arg[w]] = NoObj
       THEN Return(w, "CONTAINER_NOT_STARTED")
       ELSE Goto(w, "kill_call")
    /\ UNCHANGED <<containers, objs, nobj, dirs, startup_mutex, mainVars, nconn, launchVars, extVars,
                   startedSince>>

\* Line 354: the map is looked up and Container.kill runs.
Kill_Call(w) ==
    /\ DaemonUp /\ pc[w] = "kill_call"
    /\ IF containers[arg[w]] = NoObj
       THEN /\ Raise(w, "KeyError")
            /\ UNCHANGED objs
       ELSE LET o == containers[arg[w]] IN
            /\ objs' = [objs EXCEPT ![o] = KillResult(objs[o])]
            /\ IF KillRaises(objs[o])
               THEN Raise(w, "AttributeError")
               ELSE GotoWith(w, "kill_del", o)
    /\ UNCHANGED <<containers, nobj, dirs, startup_mutex, mainVars, nconn, launchVars, extVars,
                   startedSince>>

Kill_Del(w) ==
    /\ DaemonUp /\ pc[w] = "kill_del"
    /\ Handler_Del(w, "kill_ok")

\* Line 356.
Kill_Ok(w) ==
    /\ DaemonUp /\ pc[w] = "kill_ok"
    /\ Return(w, "OK")
    /\ UNCHANGED <<containers, objs, nobj, dirs, startup_mutex, mainVars, nconn, launchVars, extVars,
                   startedSince>>

\* ------------------------------- the exchange on one connection, in order

\* What is sent and received on a connection, as entries of wire.
Snd(kw) == [dir |-> "S", kw |-> kw]
Rcv(kw) == [dir |-> "R", kw |-> kw]

\* What the steps of the exchange leave alone.
protoFrame == <<containers, objs, nobj, dirs, startup_mutex, mainVars, launchVars,
                startedSince, dirFiles, bridge, client, io, boot, cfg, alloc, frames, link, ref, exc, sent>>

\* _listen lines 83-89: accept() returns a connection and a daemon thread
\* running start_connection is started for it.
Conn_Accept(w) ==
    /\ DaemonUp /\ acceptAlive /\ server_sock = "open"
    /\ pc[w] \in {"idle", "done", "dead"}
    /\ \A v \in Workers : v < w => pc[v] \notin {"idle", "done", "dead"}
    /\ nconn < MaxConn
    /\ nconn' = nconn + 1
    /\ pc' = [pc EXCEPT ![w] = "conn_ready"]
    /\ wire' = [wire EXCEPT ![w] = <<>>]
    /\ op' = [op EXCEPT ![w] = "NONE"]
    /\ UNCHANGED <<arg, protoFrame>>

\* The first statement going on to receive without sending.
Conn_Ready_Silent(w, peerGone) ==
    /\ DaemonUp /\ pc[w] = "conn_ready"
    /\ pc' = [pc EXCEPT ![w] = "conn_recv"]
    /\ UNCHANGED <<wire, op, arg, nconn, protoFrame>>

\* start_connection line 160: self.sock.send(b"READY"), before the try.
\* When the peer is gone the send raises, which ends the thread.
Conn_Ready(w, peerGone) ==
    /\ DaemonUp /\ pc[w] = "conn_ready"
    /\ IF peerGone
       THEN /\ pc' = [pc EXCEPT ![w] = "dead"]
            /\ UNCHANGED wire
       ELSE /\ pc' = [pc EXCEPT ![w] = "conn_recv"]
            /\ wire' = [wire EXCEPT ![w] = Append(@, Snd("READY"))]
    /\ UNCHANGED <<op, arg, nconn, protoFrame>>

\* Lines 163-188: the request is received and looked up in the dispatch
\* table ("" is what recv returns when the peer has closed).
Conn_Recv(w, msg) ==
    /\ DaemonUp /\ pc[w] = "conn_recv"
    /\ wire' = [wire EXCEPT ![w] = Append(@, Rcv(msg))]
    /\ op' = [op EXCEPT ![w] = msg]
    /\ pc' = [pc EXCEPT ![w] =
                 CASE msg = "PING" -> "conn_ping"
                   [] msg = "STARTED" -> "conn_started"
                   [] OTHER -> "conn_unknown"]
    /\ UNCHANGED <<arg, nconn, protoFrame>>

\* _ping (lines 201-206) and the finally of line 199.
Conn_Ping(w) ==
    /\ DaemonUp /\ pc[w] = "conn_ping"
    /\ wire' = [wire EXCEPT ![w] = Append(@, Snd("OK"))]
    /\ pc' = [pc EXCEPT ![w] = "done"]
    /\ UNCHANGED <<op, arg, nconn, protoFrame>>

\* _started (lines 208-216): CONT, the name, then YES or NO.
Conn_Started(w, n) ==
    /\ DaemonUp /\ pc[w] = "conn_started"
    /\ wire' = [wire EXCEPT ![w] =
                   @ \o <<Snd("CONT"), Rcv(n),
                          Snd(IF containers[n] # NoObj THEN "YES" ELSE "NO")>>]
    /\ arg' = [arg EXCEPT ![w] = n]
    /\ pc' = [pc EXCEPT ![w] = "done"]
    /\ UNCHANGED <<op, nconn, protoFrame>>

\* Lines 190-191 and raise_unknown_request (socket.py 102-110): the keyword,
\* a receive, then the request sent back.
Conn_Unknown(w) ==
    /\ DaemonUp /\ pc[w] = "conn_unknown"
    /\ wire' = [wire EXCEPT ![w] =
                   @ \o <<Snd("UNKNOWN_REQUEST"), Rcv("CONT"), Snd(op[w])>>]
    /\ pc' = [pc EXCEPT ![w] = "done"]
    /\ UNCHANGED <<op, arg, nconn, protoFrame>>

\* ------------------------------------- DELETE, ARCHIVE, RENAME, INSTALL

\* What the handlers of this section leave alone.
fsFrame == <<containers, objs, nobj, startup_mutex, mainVars, nconn, launchVars,
             startedSince, wire, bridge, client, io, boot, cfg, alloc, frames, link>>

\* Lines 473-476, 448-451, 498-501: get_container_dir(name).is_dir(); a
\* missing directory is answered NO_SUCH_CONTAINER and the handler returns.
Fs_IsDir(w, next) ==
    /\ IF arg[w] \notin dirs
       THEN Return(w, "NO_SUCH_CONTAINER")
       ELSE Goto(w, next)
    /\ UNCHANGED <<dirs, dirFiles, fsFrame>>

\* Lines 477-480, 452-455, 502-505: a name that is in the live map is
\* answered CONTAINER_STARTED_CANNOT_MODIFY and the handler returns.
Fs_Started(w, next) ==
    /\ IF containers[arg[w]] # NoObj
       THEN Return(w, "CONTAINER_STARTED_CANNOT_MODIFY")
       ELSE Goto(w, next)
    /\ UNCHANGED <<dirs, dirFiles, fsFrame>>

Delete_IsDir(w) == DaemonUp /\ pc[w] = "delete_isdir" /\ Fs_IsDir(w, "delete_check")

Delete_Check(w) == DaemonUp /\ pc[w] = "delete_check" /\ Fs_Started(w, "delete_rmtree")

\* Lines 482-484: shutil.rmtree of the directory, then ok().
Delete_Rmtree(w) ==
    /\ DaemonUp /\ pc[w] = "delete_rmtree"
    /\ IF arg[w] \notin dirs
       THEN /\ Raise(w, "FileNotFoundError")
            /\ UNCHANGED <<dirs, dirFiles>>
       ELSE /\ dirs' = dirs \ {arg[w]}
            /\ dirFiles' = [dirFiles EXCEPT ![arg[w]] = NoDir]
            /\ Return(w, "OK")
    /\ UNCHANGED fsFrame

Archive_IsDir(w) == DaemonUp /\ pc[w] = "archive_isdir" /\ Fs_IsDir(w, "archive_check")

Archive_Check(w) == DaemonUp /\ pc[w] = "archive_check" /\ Fs_Started(w, "archive_tar")

\* Lines 457-462 and archive_container (container_extras.py 40-59): dest is
\* what the destination path is when the archive is about to be written.
\* The container directory is only read.
Archive_Tar(w, dest) ==
    /\ DaemonUp /\ pc[w] = "archive_tar"
    /\ CASE dest = "dir" -> Raise(w, "IsADirectoryError")
         [] dest = "file" -> Return(w, "INVALID_PATH")
         [] dest = "free" ->
              IF arg[w] \in dirs THEN Return(w, "OK")
              ELSE Raise(w, "FileNotFoundError")
    /\ UNCHANGED <<dirs, dirFiles, fsFrame>>

\* The characters of each name of the model.
NameChars(n) ==
    CASE n = "a" -> <<"a">>
      [] n = "b" -> <<"b">>
      [] n = "b-c" -> <<"b", "-", "c">>

\* Characters \w matches.
WordChars == {"a", "b", "c", "_", "0"}

\* JabberwockyCLI.rename (cli.py 463-468): re.compile(r"\w+").match(name)
\* succeeds when the name begins with a word character; what follows the
\* matched characters is not looked at.
comp_match(n) == Len(NameChars(n)) >= 1 /\ NameChars(n)[1] \in WordChars

\* The new names the command line lets through to the RENAME request.
CliNames == {n \in DirNames : comp_match(n)}

Rename_IsDir(w) == DaemonUp /\ pc[w] = "rename_isdir" /\ Fs_IsDir(w, "rename_check")

Rename_Check(w) == DaemonUp /\ pc[w] = "rename_check" /\ Fs_Started(w, "rename_do")

\* Lines 508-510: os.rename(old directory, new directory), then ok().
\* new_name was received at line 494 and is used here only.  Renaming onto
\* itself does nothing; onto another existing (non-empty) directory raises
\* OSError.
Rename_Do(w, new_name) ==
    /\ DaemonUp /\ pc[w] = "rename_do"
    /\ IF arg[w] \notin dirs
       THEN /\ Raise(w, "FileNotFoundError")
            /\ UNCHANGED <<dirs, dirFiles>>
       ELSE IF new_name = arg[w]
       THEN /\ Return(w, "OK")
            /\ UNCHANGED <<dirs, dirFiles>>
       ELSE IF new_name \in dirs
       THEN /\ Raise(w, "OSError")
            /\ UNCHANGED <<dirs, dirFiles>>
       ELSE /\ dirs' = (dirs \ {arg[w]}) \cup {new_name}
            /\ dirFiles' = [dirFiles EXCEPT ![new_name] = dirFiles[arg[w]],
                                             ![arg[w]] = NoDir]
            /\ Return(w, "OK")
    /\ UNCHANGED fsFrame

\* container_extras.install_container (lines 14-24): tar.extractall into
\* get_container_dir(name), which makes the directory when it is missing
\* and writes the archive's members over the files of an existing one.
install_container(files) == IF files = "none" THEN "tar" ELSE "overwritten"

\* _install (lines 416-437); archive is what archive_path names: nothing or
\* a directory, a file that is no tar archive, or a tar archive.
Install(w, archive) ==
    /\ DaemonUp /\ pc[w] = "install"
    /\ CASE archive = "nofile" ->
              /\ Return(w, "INVALID_PATH")
              /\ UNCHANGED <<dirs, dirFiles>>
         [] archive = "nottar" ->
              /\ Raise(w, "TypeError")
              /\ UNCHANGED <<dirs, dirFiles>>
         [] archive = "tar" ->
              /\ dirs' = dirs \cup {arg[w]}
              /\ dirFiles' = [dirFiles EXCEPT ![arg[w]].files = install_container(@)]
              /\ Return(w, "OK")
    /\ UNCHANGED fsFrame

\* ----------------------------------------- UPDATE-HOSTKEY, RUN-COMMAND

\* What the handlers of this section leave alone.
guestFrame == <<containers, nobj, dirs, startup_mutex, mainVars, nconn, launchVars,
                startedSince, wire, client, io, boot, cfg, alloc, frames, link>>

\* A name as it came off the socket (bytes) and after .decode("utf-8") (str).
BytesKey(n) == [type |-> "bytes", val |-> n]
StrKey(n) == [type |-> "str", val |-> n]

\* key in self.manager.containers: the keys of the dict are the str names
\* _start stored, and a bytes object equals no str.
InContainers(key) == key.type = "str" /\ containers[key.val] # NoObj

\* A call of ClientServerSocket.raise_container_not_started (socket.py
\* 112-120) with the positional arguments args: the method takes exactly
\* one, any other number is a TypeError raised before anything is sent.
raise_container_not_started(w, args) ==
    IF Len(args) = 1 THEN Return(w, "CONTAINER_NOT_STARTED")
    ELSE Raise(w, "TypeError")

\* _update_hostkey (lines 237-249): the name is used as received (line 242
\* has no decode).  authOk: the guest accepted the new public key.
Hostkey(w, authOk) ==
    /\ DaemonUp /\ pc[w] = "hostkey"
    /\ LET key == BytesKey(arg[w]) IN
       IF ~InContainers(key)
       THEN /\ raise_container_not_started(w, <<key>>)
            /\ UNCHANGED dirFiles
       ELSE LET o == objs[containers[key.val]] IN
            IF o.sshi = "unset"
            THEN Raise(w, "AttributeError") /\ UNCHANGED dirFiles
            ELSE IF o.sshi # "open"
            THEN Raise(w, "OSError") /\ UNCHANGED dirFiles
            ELSE IF o.name \notin dirs
            THEN Raise(w, "FileNotFoundError") /\ UNCHANGED dirFiles
            ELSE /\ dirFiles' = [dirFiles EXCEPT ![o.name] = update_hostkey(@, "rotated")]
                 /\ IF authOk THEN Return(w, "OK")
                    ELSE Raise(w, "FailedToAuthorizeKeyError")
    /\ UNCHANGED <<objs, bridge, guestFrame>>

\* _run_command lines 255-271: after the name and the command line were
\* received, a name that is not in the map is answered through
\* raise_container_not_started() (called without an argument), any other
\* with BEGIN.
Run_Check(w) ==
    /\ DaemonUp /\ pc[w] = "run_check"
    /\ IF ~InContainers(StrKey(arg[w]))
       THEN raise_container_not_started(w, <<>>)
       ELSE /\ pc' = [pc EXCEPT ![w] = "run_exec"]
            /\ sent' = [sent EXCEPT ![w] = Append(@, "BEGIN")]
            /\ UNCHANGED <<op, arg, ref, exc>>
    /\ UNCHANGED <<objs, dirFiles, bridge, guestFrame>>

\* The _RunCommandHandler right after send_and_recv started its four
\* threads (lines 561-568).
NewBridge ==
    [pc |-> "loop", t_recv |-> TRUE, t_send_stdout |-> TRUE,
     t_send_stderr |-> TRUE, t_send_null |-> TRUE, peer |-> "open",
     client_sock |-> "open", guest |-> "running", kills |-> 0, delivered |-> 0]

\* Lines 273-283 and 561-568: Container.run executes the command in the
\* guest (execOk: exec_command did not raise) and the bridge threads are
\* started.
Run_Exec(w, execOk) ==
    /\ DaemonUp /\ pc[w] = "run_exec"
    /\ IF containers[arg[w]] = NoObj
       THEN Raise(w, "KeyError") /\ UNCHANGED bridge
       ELSE IF objs[containers[arg[w]]].sshi # "open"
       THEN Raise(w, "AttributeError") /\ UNCHANGED bridge
       ELSE IF ~execOk
       THEN Raise(w, "SSHException") /\ UNCHANGED bridge
       ELSE /\ bridge' = [bridge EXCEPT ![w] = NewBridge]
            /\ GotoWith(w, "bridge", containers[arg[w]])
    /\ UNCHANGED <<objs, dirFiles, guestFrame>>

\* A step of worker w's bridge that changes the bridge only.  The threads
\* of a bridge are followed until its handler has returned.
BridgeStep(w, b) ==
    /\ bridge' = [bridge EXCEPT ![w] = b]
    /\ UNCHANGED <<workerVars, objs, dirFiles, guestFrame>>

\* The client closes its end of the connection.
Peer_Close(w) ==
    /\ DaemonUp /\ pc[w] = "bridge" /\ bridge[w].peer = "open"
    /\ BridgeStep(w, [bridge[w] EXCEPT !.peer = "closed"])

\* The guest command ends by itself: its stdout and stderr reach EOF.
Guest_Exit(w) ==
    /\ DaemonUp /\ pc[w] = "bridge" /\ bridge[w].guest = "running"
    /\ BridgeStep(w, [bridge[w] EXCEPT !.guest = "exited"])

\* A send on the connection fails: the peer is gone or the socket closed.
SendFails(b) == b.peer = "closed" \/ b.client_sock = "closed"

\* _recv (lines 579-587): recv returns b"" (peer closed) or raises (socket
\* closed by the main loop); the thread ends.
Bridge_Recv_Closed(w) ==
    /\ DaemonUp /\ pc[w] = "bridge" /\ bridge[w].t_recv /\ SendFails(bridge[w])
    /\ BridgeStep(w, [bridge[w] EXCEPT !.t_recv = FALSE])

\* _recv: stdin.write raises because the guest command has ended (line 584,
\* caught at 586); the thread ends.
Bridge_Recv_Fail(w) ==
    /\ DaemonUp /\ pc[w] = "bridge" /\ bridge[w].t_recv /\ bridge[w].guest = "exited"
    /\ ~SendFails(bridge[w])
    /\ BridgeStep(w, [bridge[w] EXCEPT !.t_recv = FALSE])

\* _send_stdout (lines 589-597): read returns b"" at EOF, or the send
\* raises; the thread ends.
Bridge_Stdout_End(w) ==
    /\ DaemonUp /\ pc[w] = "bridge" /\ bridge[w].t_send_stdout
    /\ bridge[w].guest = "exited" \/ SendFails(bridge[w])
    /\ BridgeStep(w, [bridge[w] EXCEPT !.t_send_stdout = FALSE])

\* _send_stderr (lines 599-607).
Bridge_Stderr_End(w) ==
    /\ DaemonUp /\ pc[w] = "bridge" /\ bridge[w].t_send_stderr
    /\ bridge[w].guest = "exited" \/ SendFails(bridge[w])
    /\ BridgeStep(w, [bridge[w] EXCEPT !.t_send_stderr = FALSE])

\* _send_null (lines 609-618): the keep-alive send raises; the thread ends.
Bridge_Null_End(w) ==
    /\ DaemonUp /\ pc[w] = "bridge" /\ bridge[w].t_send_null /\ SendFails(bridge[w])
    /\ BridgeStep(w, [bridge[w] EXCEPT !.t_send_null = FALSE])

\* A loop that looks at the output pumps only.
BridgeBreaks_PumpsOnly(b) == ~(b.t_send_stdout \/ b.t_send_stderr)

\* The loop condition of send_and_recv (lines 571-574).
BridgeBreaks(b) ==
    \/ ~(b.t_recv /\ b.t_send_null)
    \/ ~(b.t_send_stdout \/ b.t_send_stderr)

\* Lines 570-576: the loop breaks and the client socket is closed.  (A pass
\* of the loop that does not break sleeps and changes nothing.)
Bridge_Poll(w) ==
    /\ DaemonUp /\ pc[w] = "bridge" /\ bridge[w].pc = "loop"
    /\ BridgeBreaks(bridge[w])
    /\ BridgeStep(w, [bridge[w] EXCEPT !.pc = "closed", !.client_sock = "closed"])

\* Line 577: exec_ssh_command(["kill", "-9", pid]) on the container the
\* bridge was given, then the handler returns (finally: close).  sshOk: the
\* command went through; otherwise it raises and the answer cannot be sent,
\* the socket being closed.
Bridge_Kill(w, sshOk) ==
    /\ DaemonUp /\ pc[w] = "bridge" /\ bridge[w].pc = "closed"
    /\ LET through == sshOk /\ objs[ref[w]].sshi = "open" IN
       /\ bridge' = [bridge EXCEPT ![w] =
                       [@ EXCEPT !.pc = "done", !.kills = @ + 1,
                                 !.delivered = IF through THEN @ + 1 ELSE @,
                                 !.guest = IF through THEN "exited" ELSE @]]
       /\ exc' = [exc EXCEPT ![w] = IF through THEN @ ELSE "SSHException"]
    /\ pc' = [pc EXCEPT ![w] = "done"]
    /\ ref' = [ref EXCEPT ![w] = NoObj]
    /\ UNCHANGED <<op, arg, sent, objs, dirFiles, guestFrame>>

\* ------------------------------------- client library (ContainerManagerClient)

\* The methods of the client library that talk to the daemon.
Methods ==
    {"ping", "started", "ssh_address", "update_hostkey", "start", "stop", "kill",
     "get_file", "put_file", "run_command", "install", "archive", "delete", "rename"}

\* The error keywords of get_server_error's mapping (socket.py 163-172).
ErrorKeywords ==
    {"UNKNOWN_REQUEST", "CONTAINER_NOT_STARTED", "NO_SUCH_CONTAINER",
     "CONTAINER_STARTED_CANNOT_MODIFY", "BOOT_FAILURE", "INVALID_PATH",
     "EXCEPTION_OCCURED", "IS_A_DIRECTORY"}

\* A message as the text between its colons: a keyword is one part, the
\* answer of SSH-ADDRESS "user:pswd:host:port" is four.
Msg(kw) == <<kw>>
AddressMsg == <<"user", "pswd", "127.0.0.1", "port">>

\* get_server_error (socket.py 159-175): the exception raised for value.
get_server_error(value) ==
    CASE value = "UNKNOWN_REQUEST" -> "UnknownRequestError"
      [] value = "CONTAINER_NOT_STARTED" -> "ContainerNotStartedError"
      [] value = "NO_SUCH_CONTAINER" -> "UnknownContainerError"
      [] value = "CONTAINER_STARTED_CANNOT_MODIFY" -> "ContainerStartedCannotModify"
      [] value = "BOOT_FAILURE" -> "BootFailureError"
      [] value = "INVALID_PATH" -> "InvalidPathError"
      [] value = "EXCEPTION_OCCURED" -> "ServerError"
      [] value = "IS_A_DIRECTORY" -> "SockIsADirectoryError"
      [] OTHER -> "ValueError"

\* ClientServerSocket.recv_expect (socket.py 38-58) having received msg:
\* "" when msg is one of expected, else the exception get_server_error raises.
recv_expect(expected, msg) ==
    IF Len(msg) = 1 /\ msg[1] \in expected THEN ""
    ELSE get_server_error(msg[1])

\* How many times the method waits for CONT before its last receive
\* (run_command with a command line of one word).
ContFields(m) ==
    CASE m = "ping" -> 0
      [] m \in {"started", "ssh_address", "update_hostkey", "start", "stop", "kill",
                "delete"} -> 1
      [] m \in {"install", "archive", "rename"} -> 2
      [] m \in {"get_file", "put_file", "run_command"} -> 3

\* What the method's last receive is expected to be.
FinalExpected(m) ==
    CASE m = "started" -> {"YES", "NO"}
      [] m = "run_command" -> {"BEGIN"}
      [] OTHER -> {"OK"}

\* The last receive of a method.  ssh_address (client lines 95-97) does not
\* go through recv_expect: it splits what it received at the colons and
\* unpacks four values, a ValueError for any other number of parts.
FinalRecv(m, msg) ==
    IF m = "ssh_address"
    THEN IF Len(msg) = 4 THEN "" ELSE "ValueError"
    ELSE recv_expect(FinalExpected(m), msg)

\* What the daemon may send as the answer a method waits for last.
FinalMsgs(m) ==
    {Msg(k) : k \in FinalExpected(m) \cup ErrorKeywords}
       \cup (IF m = "ssh_address" THEN {AddressMsg} ELSE {})

\* What the calls of the client library leave alone.
clientFrame == <<containers, objs, nobj, dirs, startup_mutex, mainVars, nconn, workerVars,
                 startedSince, launchVars, dirFiles, wire, bridge, io, boot, cfg, alloc, frames, link>>

\* A method is called: _make_connection (client lines 331-341) connects.
Client_Call(m) ==
    /\ client.step \in {"none", "returned", "raised"}
    /\ client' = [method |-> m, step |-> "ready", fields |-> ContFields(m),
                  reply |-> <<>>, result |-> ""]
    /\ UNCHANGED clientFrame

\* The outcome of a receive: the call goes on to next, or fails with the
\* exception e.
ClientRecv(msg, e, next, left) ==
    client' = [client EXCEPT !.reply = msg,
                            !.step = IF e = "" THEN next ELSE "raised",
                            !.result = e,
                            !.fields = left]

\* _make_connection: recv_expect(b"READY").
Client_Ready(msg) ==
    /\ client.step = "ready"
    /\ ClientRecv(msg, recv_expect({"READY"}, msg),
                  IF client.fields = 0 THEN "final" ELSE "cont", client.fields)
    /\ UNCHANGED clientFrame

\* One recv_expect(b"CONT") of the method, after which the next field is
\* sent.
Client_Cont(msg) ==
    /\ client.step = "cont"
    /\ ClientRecv(msg, recv_expect({"CONT"}, msg),
                  IF client.fields = 1 THEN "final" ELSE "cont", client.fields - 1)
    /\ UNCHANGED clientFrame

\* The method's last receive; it returns when that raised nothing.
Client_Final(msg) ==
    /\ client.step = "final"
    /\ msg \in FinalMsgs(client.method)
    /\ ClientRecv(msg, FinalRecv(client.method, msg), "returned", 0)
    /\ UNCHANGED clientFrame

\* ------------------------------------------------------------- HALT, PANIC

\* start_connection lines 166-168.
Halt(w) ==
    /\ DaemonUp /\ pc[w] = "halt"
    /\ halt_event' = TRUE
    /\ pc' = [pc EXCEPT ![w] = "done"]
    /\ UNCHANGED <<op, arg, ref, exc, sent>>
    /\ UNCHANGED <<containers, objs, nobj, dirs, startup_mutex, server_sock, infoFile,
                   mainpc, haltLen, haltVisited, haltCur, haltSnap, acceptAlive, nconn, launchVars, extVars,
                   startedSince>>

AliveObjs == {i \in ObjIds : objs[i].booter = "alive"}

\* ContainerManagerServer.panic (lines 117-128) called from lines 169-171.
\* killed: the QEMU processes p.kill() was reached for; raised: one p.kill()
\* raised a psutil error, which start_connection answers.  Otherwise the
\* info file is removed (FileNotFoundError when it is gone) and the process
\* aborts itself.
Panic(w, killed, raised) ==
    /\ DaemonUp /\ pc[w] = "panic"
    /\ killed \in SUBSET AliveObjs
    /\ raised \in BOOLEAN
    /\ IF raised THEN killed # AliveObjs ELSE killed = AliveObjs
    /\ objs' = [i \in ObjIds |->
                  IF i \in killed THEN [objs[i] EXCEPT !.booter = "dead"] ELSE objs[i]]
    /\ IF raised
       THEN /\ Raise(w, "NoSuchProcess")
            /\ UNCHANGED <<infoFile, mainpc>>
       ELSE IF infoFile = NoFile
       THEN /\ Raise(w, "FileNotFoundError")
            /\ UNCHANGED <<infoFile, mainpc>>
       ELSE /\ infoFile' = NoFile
            /\ mainpc' = "aborted"
            /\ UNCHANGED workerVars
    /\ UNCHANGED <<containers, nobj, dirs, startup_mutex, halt_event, server_sock,
                   haltLen, haltVisited, haltCur, haltSnap, acceptAlive, nconn, launchVars, extVars,
                   startedSince>>

\* ------------------------------------------------ accept thread (_listen)

\* Lines 90-92: accept() raises (the socket was closed, or any other error);
\* the thread sets the halt event and ends.
Listen_Fail ==
    /\ DaemonUp /\ acceptAlive /\ ~halt_event
    /\ acceptAlive' = FALSE
    /\ halt_event' = TRUE
    /\ UNCHANGED <<containers, objs, nobj, dirs, startup_mutex, server_sock, infoFile,
                   mainpc, haltLen, haltVisited, haltCur, haltSnap, nconn, launchVars, extVars, workerVars,
                   startedSince>>

\* ------------------------------------------ main thread (listen, then stop)

\* Which exceptions of Container.stop are PoweroffBadExitError for the
\* except clause of line 103: the timeout error counts as one.
IsPoweroffBadExit(e) == e \in {"PoweroffBadExitError", "PoweroffTimeoutExceededError"}

\* Line 103.
HaltCatches(e) == IsPoweroffBadExit(e) \/ e \in {"SSHException", "AttributeError"}

\* Lines 73-76: the halt event wakes the main thread, which closes the
\* listening socket and calls stop().  The close makes the accept() of
\* _listen raise, which ends that thread (lines 90-92, setting the event that
\* is already set).
Main_Halt ==
    /\ mainpc = "wait" /\ halt_event
    /\ server_sock' = "closed"
    /\ acceptAlive' = FALSE
    /\ mainpc' = "halt_iter"
    /\ UNCHANGED <<containers, objs, nobj, dirs, startup_mutex, halt_event, infoFile,
                   haltLen, haltVisited, haltCur, haltSnap, nconn, launchVars, extVars,
                   workerVars, startedSince>>

\* The dict iterator of line 98 yields an entry it has not yielded yet, or is
\* exhausted.
IterStep ==
    IF \E n \in Live : containers[n] \notin haltVisited
    THEN \E n \in Live :
           /\ containers[n] \notin haltVisited
           /\ haltCur' = containers[n]
           /\ haltVisited' = haltVisited \cup {containers[n]}
           /\ mainpc' = "halt_stop"
    ELSE /\ mainpc' = "halt_remove"
         /\ UNCHANGED <<haltVisited, haltCur>>

\* Line 98, entering the loop: the iterator over containers.items() is
\* created, remembering the size of the dict, and asked for its first entry.
Main_Iter ==
    /\ mainpc = "halt_iter"
    /\ haltLen' = Cardinality(Live)
    /\ haltSnap' = {containers[n] : n \in Live}
    /\ IterStep
    /\ UNCHANGED <<containers, objs, nobj, dirs, startup_mutex, halt_event, server_sock,
                   infoFile, acceptAlive, nconn, launchVars, extVars, workerVars, startedSince>>

\* Line 98, a later step of the iterator: RuntimeError when the dict changed
\* size since the iteration began.
Main_Next ==
    /\ mainpc = "halt_next"
    /\ IF Cardinality(Live) # haltLen
       THEN /\ mainpc' = "crashed"
            /\ UNCHANGED <<haltVisited, haltCur>>
       ELSE IterStep
    /\ UNCHANGED <<containers, objs, nobj, dirs, startup_mutex, halt_event, server_sock,
                   infoFile, haltLen, haltSnap, acceptAlive, nconn, launchVars, extVars, workerVars,
                   startedSince>>

\* Line 101 up to ssh.py 139: container.stop() evaluates self.sshi and
\* self.booter.pid and runs poweroff in the guest.
Main_Stop(sshErr) ==
    /\ mainpc = "halt_stop"
    /\ sshErr \in BOOLEAN
    /\ LET o == objs[haltCur]
           e == IF o.sshi # "open" THEN "AttributeError"
                ELSE IF sshErr THEN "SSHException" ELSE ""
       IN /\ (o.sshi = "open" /\ o.booter # "alive") => sshErr
          /\ mainpc' = IF e = "" THEN "halt_wait"
                       ELSE IF HaltCatches(e) THEN "halt_kill" ELSE "crashed"
    /\ UNCHANGED <<containers, objs, nobj, dirs, startup_mutex, halt_event, server_sock,
                   infoFile, haltLen, haltVisited, haltCur, haltSnap, acceptAlive, nconn, launchVars, extVars,
                   workerVars, startedSince>>

\* ssh.py 141-150, container.py 123-124, server line 102.
Main_Wait(exitAt) ==
    /\ mainpc = "halt_wait"
    /\ exitAt \in 0..PoweroffPolls
    /\ objs[haltCur].booter # "alive" => exitAt = 0
    /\ IF PollLoop(0, exitAt) = "timeout"
       THEN /\ mainpc' = IF HaltCatches("PoweroffTimeoutExceededError")
                         THEN "halt_kill" ELSE "crashed"
            /\ UNCHANGED objs
       ELSE LET o == [objs[haltCur] EXCEPT !.booter = "dead"] IN
            IF CloseRaises(o)
            THEN /\ objs' = [objs EXCEPT ![haltCur] = o]
                 /\ mainpc' = "halt_kill"
            ELSE /\ objs' = [objs EXCEPT ![haltCur] = CloseResult(o)]
                 /\ mainpc' = "halt_next"
    /\ UNCHANGED <<containers, nobj, dirs, startup_mutex, halt_event, server_sock,
                   infoFile, haltLen, haltVisited, haltCur, haltSnap, acceptAlive, nconn, launchVars, extVars,
                   workerVars, startedSince>>

\* Lines 104-112: the log line reads container.booter.pid, then
\* container.kill(); (PermissionError, AttributeError) is caught and the
\* message of line 108 reads container.booter.pid again, outside any try.
Main_Kill ==
    /\ mainpc = "halt_kill"
    /\ IF objs[haltCur].booter = "none"
       THEN /\ mainpc' = "crashed"
            /\ UNCHANGED objs
       ELSE /\ objs' = [objs EXCEPT ![haltCur] = KillResult(objs[haltCur])]
            /\ mainpc' = "halt_next"
    /\ UNCHANGED <<containers, nobj, dirs, startup_mutex, halt_event, server_sock,
                   infoFile, haltLen, haltVisited, haltCur, haltSnap, acceptAlive, nconn, launchVars, extVars,
                   workerVars, startedSince>>

\* Line 114: os.remove(get_server_info_file()).
Main_Remove ==
    /\ mainpc = "halt_remove"
    /\ IF infoFile = NoFile
       THEN /\ mainpc' = "crashed"
            /\ UNCHANGED infoFile
       ELSE /\ mainpc' = "halt_exit"
            /\ infoFile' = NoFile
    /\ UNCHANGED <<containers, objs, nobj, dirs, startup_mutex, halt_event, server_sock,
                   haltLen, haltVisited, haltCur, haltSnap, acceptAlive, nconn, launchVars, extVars,
                   workerVars, startedSince>>

\* Lines 77-78: sys.exit() ends the process and its daemon threads.
Main_Exit ==
    /\ mainpc = "halt_exit"
    /\ mainpc' = "exited"
    /\ UNCHANGED <<containers, objs, nobj, dirs, startup_mutex, halt_event, server_sock,
                   infoFile, haltLen, haltVisited, haltCur, haltSnap, acceptAlive, nconn, launchVars, extVars,
                   workerVars, startedSince>>

\* ------------------------------------- launching the daemon (run.py, server.py)

\* allocate_port whose loop begins one port above low.
RECURSIVE allocate_port_AboveLow(_, _, _)
allocate_port_AboveLow(low, high, occupied) ==
    IF low + 1 > high THEN 0
    ELSE IF low + 1 \notin occupied THEN low + 1
    ELSE allocate_port_AboveLow(low + 1, high, occupied)

\* port_allocation.allocate_port: the lowest port of [low, high] that is not
\* occupied; 0 stands for PortAllocationError.
RECURSIVE allocate_port(_, _, _)
allocate_port(low, high, occupied) ==
    IF low > high THEN 0
    ELSE IF low \notin occupied THEN low
    ELSE allocate_port(low + 1, high, occupied)

\* psutil.pid_exists for the pids of launched daemons.
PidExists(p) == p \in Clis /\ dpc[p] \notin {"none", "dead"}

\* run.py _server_is_running (lines 16-29).
ServerIsRunning ==
    /\ infoFile # NoFile
    /\ infoFile.boot > OsBoot
    /\ PidExists(infoFile.pid)

daemonVars == <<containers, objs, nobj, dirs, startup_mutex, halt_event, server_sock,
                mainpc, haltLen, haltVisited, haltCur, haltSnap, acceptAlive, nconn,
                workerVars, startedSince>>

\* run.py line 37.
Cli_Check(c) ==
    /\ cpc[c] = "check"
    /\ cpc' = [cpc EXCEPT ![c] = IF ServerIsRunning THEN "client" ELSE "popen"]
    /\ UNCHANGED <<dpc, dport, boundPorts, infoFile, daemonVars, extVars>>

\* run.py lines 38-62: the server is started as a detached child.
Cli_Popen(c) ==
    /\ cpc[c] = "popen"
    /\ cpc' = [cpc EXCEPT ![c] = "client"]
    /\ dpc' = [dpc EXCEPT ![c] = "main"]
    /\ UNCHANGED <<dport, boundPorts, infoFile, daemonVars, extVars>>

\* server.py lines 30-37 and listen line 56: __main__ builds the server and
\* calls listen(), which allocates the port.
Server_Allocate(d) ==
    /\ dpc[d] = "main"
    /\ dport' = [dport EXCEPT ![d] = allocate_port(ServerPortLow, PortHigh, boundPorts)]
    /\ dpc' = [dpc EXCEPT ![d] = "allocated"]
    /\ UNCHANGED <<cpc, boundPorts, infoFile, daemonVars, extVars>>

\* listen lines 58-60: bind raises OSError when the port was taken meanwhile.
Server_Bind(d) ==
    /\ dpc[d] = "allocated"
    /\ IF dport[d] \in boundPorts
       THEN /\ dpc' = [dpc EXCEPT ![d] = "dead"]
            /\ UNCHANGED boundPorts
       ELSE /\ dpc' = [dpc EXCEPT ![d] = "bound"]
            /\ boundPorts' = boundPorts \cup {dport[d]}
    /\ UNCHANGED <<cpc, dport, infoFile, daemonVars, extVars>>

\* listen lines 62-72: the info file is written with this pid.
Server_WriteInfo(d) ==
    /\ dpc[d] = "bound"
    /\ infoFile' = [pid |-> d, boot |-> Now]
    /\ dpc' = [dpc EXCEPT ![d] = "serving"]
    /\ UNCHANGED <<cpc, dport, boundPorts, daemonVars, extVars>>

\* listen lines 73-78 with stop line 114: a serving daemon is halted, removes
\* the info file (FileNotFoundError when there is none) and ends.
Server_Halt(d) ==
    /\ dpc[d] = "serving"
    /\ infoFile' = NoFile
    /\ dpc' = [dpc EXCEPT ![d] = "dead"]
    /\ boundPorts' = boundPorts \ {dport[d]}
    /\ UNCHANGED <<cpc, dport, daemonVars, extVars>>

InitLaunch ==
    /\ containers = [n \in Names |-> NoObj]
    /\ objs = [i \in ObjIds |-> NoContainer]
    /\ nobj = 0
    /\ dirs = Names
    /\ startup_mutex = 0
    /\ halt_event = FALSE
    /\ server_sock = "open"
    /\ infoFile \in {NoFile, [pid |-> 1, boot |-> 0]}
    /\ mainpc = "wait"
    /\ haltLen = 0
    /\ haltVisited = {}
    /\ haltCur = NoObj
    /\ haltSnap = {}
    /\ acceptAlive = TRUE
    /\ nconn = 0
    /\ cpc = [c \in Clis |-> "check"]
    /\ dpc = [c \in Clis |-> "none"]
    /\ dport = [c \in Clis |-> 0]
    /\ boundPorts \in {{}, {ServerPortLow}}
    /\ pc = [w \in Workers |-> "idle"]
    /\ op = [w \in Workers |-> "NONE"]
    /\ arg = [w \in Workers |-> "a"]
    /\ ref = [w \in Workers |-> NoObj]
    /\ exc = [w \in Workers |-> ""]
    /\ sent = [w \in Workers |-> <<>>]
    /\ startedSince = [w \in Workers |-> FALSE]
    /\ dirFiles = [n \in DirNames |-> IF n \in Names THEN OrigDir ELSE NoDir]
    /\ wire = [w \in Workers |-> <<>>]
    /\ bridge = [w \in Workers |-> NoBridge]
    /\ client = NoCall
    /\ io = NoIo
    /\ boot = NoBoot
    /\ cfg = NoCfg /\ alloc = NoAlloc /\ frames = NoFrames /\ link = NoLink

NextLaunch ==
    \/ \E c \in Clis : Cli_Check(c)
    \/ \E c \in Clis : Cli_Popen(c)
    \/ \E d \in Clis : Server_Allocate(d)
    \/ \E d \in Clis : Server_Bind(d)
    \/ \E d \in Clis : Server_WriteInfo(d)
    \/ \E d \in Clis : Server_Halt(d)

SpecLaunch == InitLaunch /\ [][NextLaunch]_vars

\* ------------------------------------------------------------ the daemon
Next ==
    \/ \E w \in Workers, o \in NamedOps, n \in Names : Accept(w, o, n)
    \/ \E w \in Workers, o \in {"HALT", "PANIC"} : Accept(w, o, "a")
    \/ \E w \in Workers : Start_IsDir(w)
    \/ \E w \in Workers : Start_Acquire(w)
    \/ \E w \in Workers : Start_Check(w)
    \/ \E w \in Workers : Start_New(w)
    \/ \E w \in Workers : Start_Call(w)
    \/ \E w \in Workers, collisions \in 0..max_retries : Boot_Spawn(w, collisions)
    \/ \E w \in Workers, outcome \in {"login", "eof", "timeout"} :
          Boot_Expect(w, outcome)
    \/ \E w \in Workers : Boot_Failed(w)
    \/ \E w \in Workers, ok \in BOOLEAN : Ssh_Open(w, ok)
    \/ \E w \in Workers : Started(w)
    \/ \E w \in Workers, sshErr \in BOOLEAN : Stop_Call(w, sshErr)
    \/ \E w \in Workers : Stop_Check(w)
    \/ \E w \in Workers, exitAt \in 0..PoweroffPolls : Stop_Wait(w, exitAt)
    \/ \E w \in Workers : Stop_Del(w)
    \/ \E w \in Workers : Stop_Ok(w)
    \/ \E w \in Workers : Kill_Check(w)
    \/ \E w \in Workers : Kill_Call(w)
    \/ \E w \in Workers : Kill_Del(w)
    \/ \E w \in Workers : Kill_Ok(w)
    \/ \E w \in Workers : Halt(w)
    \/ \E w \in Workers, killed \in SUBSET ObjIds, raised \in BOOLEAN :
          Panic(w, killed, raised)
    \/ Listen_Fail
    \/ Main_Halt
    \/ Main_Iter
    \/ Main_Next
    \/ \E sshErr \in BOOLEAN : Main_Stop(sshErr)
    \/ \E exitAt \in 0..PoweroffPolls : Main_Wait(exitAt)
    \/ Main_Kill
    \/ Main_Remove
    \/ Main_Exit

Spec == Init /\ [][Next]_vars

\* START and STARTED requests only, the daemon never halted.
NextStart ==
    \/ \E w \in Workers, o \in {"START", "STARTED"}, n \in Names : Accept(w, o, n)
    \/ \E w \in Workers : Start_IsDir(w)
    \/ \E w \in Workers : Start_Acquire(w)
    \/ \E w \in Workers : Start_Check(w)
    \/ \E w \in Workers : Start_New(w)
    \/ \E w \in Workers : Start_Call(w)
    \/ \E w \in Workers, collisions \in 0..max_retries : Boot_Spawn(w, collisions)
    \/ \E w \in Workers, outcome \in {"login", "eof", "timeout"} :
          Boot_Expect(w, outcome)
    \/ \E w \in Workers : Boot_Failed(w)
    \/ \E w \in Workers, ok \in BOOLEAN : Ssh_Open(w, ok)
    \/ \E w \in Workers : Started(w)

SpecStart == Init /\ [][NextStart]_vars

\* The requests on containers (START, STOP, KILL, STARTED), the daemon never
\* halted.
NextLife ==
    \/ \E w \in Workers, o \in NamedOps, n \in Names : Accept(w, o, n)
    \/ \E w \in Workers : Start_IsDir(w)
    \/ \E w \in Workers : Start_Acquire(w)
    \/ \E w \in Workers : Start_Check(w)
    \/ \E w \in Workers : Start_New(w)
    \/ \E w \in Workers : Start_Call(w)
    \/ \E w \in Workers, collisions \in 0..max_retries : Boot_Spawn(w, collisions)
    \/ \E w \in Workers, outcome \in {"login", "eof", "timeout"} :
          Boot_Expect(w, outcome)
    \/ \E w \in Workers : Boot_Failed(w)
    \/ \E w \in Workers, ok \in BOOLEAN : Ssh_Open(w, ok)
    \/ \E w \in Workers : Started(w)
    \/ \E w \in Workers : Stop_Check(w)
    \/ \E w \in Workers, sshErr \in BOOLEAN : Stop_Call(w, sshErr)
    \/ \E w \in Workers, exitAt \in 0..PoweroffPolls : Stop_Wait(w, exitAt)
    \/ \E w \in Workers : Stop_Del(w)
    \/ \E w \in Workers : Stop_Ok(w)
    \/ \E w \in Workers : Kill_Check(w)
    \/ \E w \in Workers : Kill_Call(w)
    \/ \E w \in Workers : Kill_Del(w)
    \/ \E w \in Workers : Kill_Ok(w)

SpecLife == Init /\ [][NextLife]_vars

\* START and STOP together with the requests on container directories
\* (DELETE, ARCHIVE, RENAME, INSTALL), the daemon never halted.
NextFs ==
    \/ \E w \in Workers, o \in {"START", "STOP"} \cup FsOps, n \in Names : Accept(w, o, n)
    \/ \E w \in Workers : Start_IsDir(w)
    \/ \E w \in Workers : Start_Acquire(w)
    \/ \E w \in Workers : Start_Check(w)
    \/ \E w \in Workers : Start_New(w)
    \/ \E w \in Workers : Start_Call(w)
    \/ \E w \in Workers, collisions \in 0..max_retries : Boot_Spawn(w, collisions)
    \/ \E w \in Workers, outcome \in {"login", "eof", "timeout"} :
          Boot_Expect(w, outcome)
    \/ \E w \in Workers : Boot_Failed(w)
    \/ \E w \in Workers, ok \in BOOLEAN : Ssh_Open(w, ok)
    \/ \E w \in Workers : Stop_Check(w)
    \/ \E w \in Workers, sshErr \in BOOLEAN : Stop_Call(w, sshErr)
    \/ \E w \in Workers, exitAt \in 0..PoweroffPolls : Stop_Wait(w, exitAt)
    \/ \E w \in Workers : Stop_Del(w)
    \/ \E w \in Workers : Stop_Ok(w)
    \/ \E w \in Workers : Delete_IsDir(w)
    \/ \E w \in Workers : Delete_Check(w)
    \/ \E w \in Workers : Delete_Rmtree(w)
    \/ \E w \in Workers : Archive_IsDir(w)
    \/ \E w \in Workers : Archive_Check(w)
    \/ \E w \in Workers, dest \in {"free", "file", "dir"} : Archive_Tar(w, dest)
    \/ \E w \in Workers : Rename_IsDir(w)
    \/ \E w \in Workers : Rename_Check(w)
    \/ \E w \in Workers, new_name \in CliNames : Rename_Do(w, new_name)
    \/ \E w \in Workers, archive \in {"nofile", "nottar", "tar"} : Install(w, archive)

SpecFs == Init /\ [][NextFs]_vars

\* The exchange on each connection step by step: accept, READY, the request,
\* and the replies of PING, STARTED and of an unknown request.
NextProto ==
    \/ \E w \in Workers : Conn_Accept(w)
    \/ \E w \in Workers, peerGone \in BOOLEAN : Conn_Ready(w, peerGone)
    \/ \E w \in Workers, msg \in {"PING", "STARTED", "BOGUS", ""} : Conn_Recv(w, msg)
    \/ \E w \in Workers : Conn_Ping(w)
    \/ \E w \in Workers, n \in Names : Conn_Started(w, n)
    \/ \E w \in Workers : Conn_Unknown(w)

SpecProto == Init /\ [][NextProto]_vars

\* Calls of the client library, the daemon answering each receive with what
\* the call waits for or with an error keyword.
NextClient ==
    \/ \E m \in Methods : Client_Call(m)
    \/ \E k \in {"READY", "EXCEPTION_OCCURED"} : Client_Ready(Msg(k))
    \/ \E k \in {"CONT"} \cup ErrorKeywords : Client_Cont(Msg(k))
    \/ \E m \in Methods : \E msg \in FinalMsgs(m) : Client_Final(msg)

SpecClient == Init /\ [][NextClient]_vars

\* The daemon with container "a" started and running, before any request of
\* this run of connections.
InitGuestDaemon ==
    /\ containers = [n \in Names |-> IF n = "a" THEN 1 ELSE NoObj]
    /\ objs = [i \in ObjIds |->
                 IF i = 1 THEN [name |-> "a", booter |-> "alive", sshi |-> "open",
                                log |-> "open"]
                 ELSE NoContainer]
    /\ nobj = 1
    /\ dirs = Names
    /\ startup_mutex = 0
    /\ halt_event = FALSE
    /\ server_sock = "open"
    /\ infoFile = [pid |-> ServerPid, boot |-> Now]
    /\ mainpc = "wait"
    /\ haltLen = 0
    /\ haltVisited = {}
    /\ haltCur = NoObj
    /\ haltSnap = {}
    /\ acceptAlive = TRUE
    /\ nconn = 0
    /\ cpc = [c \in Clis |-> "done"]
    /\ dpc = [c \in Clis |-> "none"]
    /\ dport = [c \in Clis |-> 0]
    /\ boundPorts = {}
    /\ pc = [w \in Workers |-> "idle"]
    /\ op = [w \in Workers |-> "NONE"]
    /\ arg = [w \in Workers |-> "a"]
    /\ ref = [w \in Workers |-> NoObj]
    /\ exc = [w \in Workers |-> ""]
    /\ sent = [w \in Workers |-> <<>>]
    /\ startedSince = [w \in Workers |-> FALSE]
    /\ dirFiles = [n \in DirNames |->
                     IF n = "a" THEN update_hostkey(OrigDir, "start")
                     ELSE IF n \in Names THEN OrigDir ELSE NoDir]
    /\ wire = [w \in Workers |-> <<>>]
    /\ bridge = [w \in Workers |-> NoBridge]
    /\ client = NoCall

InitGuest == InitGuestDaemon /\ io = NoIo /\ boot = NoBoot /\ cfg = NoCfg /\ alloc = NoAlloc /\ frames = NoFrames /\ link = NoLink

\* UPDATE-HOSTKEY and RUN-COMMAND requests, with the bridge of each
\* RUN-COMMAND.
NextGuest ==
    \/ \E w \in Workers, o \in GuestOps, n \in Names : Accept(w, o, n)
    \/ \E w \in Workers, authOk \in BOOLEAN : Hostkey(w, authOk)
    \/ \E w \in Workers : Run_Check(w)
    \/ \E w \in Workers, execOk \in BOOLEAN : Run_Exec(w, execOk)
    \/ \E w \in Workers : Peer_Close(w)
    \/ \E w \in Workers : Guest_Exit(w)
    \/ \E w \in Workers : Bridge_Recv_Closed(w)
    \/ \E w \in Workers : Bridge_Recv_Fail(w)
    \/ \E w \in Workers : Bridge_Stdout_End(w)
    \/ \E w \in Workers : Bridge_Stderr_End(w)
    \/ \E w \in Workers : Bridge_Null_End(w)
    \/ \E w \in Workers : Bridge_Poll(w)
    \/ \E w \in Workers, sshOk \in BOOLEAN : Bridge_Kill(w, sshOk)

\* The threads of a bridge are scheduled: its main loop polls once a second
\* and goes on to line 577, and its receive thread returns from a recv on a
\* closed connection.
SpecGuest ==
    /\ InitGuest /\ [][NextGuest]_vars
    /\ \A w \in Workers :
          /\ WF_vars(Bridge_Poll(w))
          /\ WF_vars(\E sshOk \in BOOLEAN : Bridge_Kill(w, sshOk))
          /\ WF_vars(Bridge_Recv_Closed(w))

\* ------------------------------ RUN-COMMAND byte streams (both ends)

MaxOut == 2              \* bytes the guest command writes to its stdout
MaxErr == 1              \* bytes the guest command writes to its stderr
MaxNull == 1             \* keep-alive frames of _send_null that are followed
MaxPending == 1          \* client keep-alives in flight at once
ChunkMax == 255          \* buffer[:255] in _send_select
RecvBuf == 1024          \* bufsize default of ClientServerSocket.recv
SrvRecvBuf == 65536      \* 1 << 16 in _RunCommandHandler._recv
AsciiEnd == 128          \* first byte value a one-byte utf-8 decode rejects

\* Byte values the guest writes: 'h', 'e', and 0xC3, the first byte of a
\* two-byte utf-8 character.
OutBytes == {104, 195}
ErrBytes == {101}

\* b"EXCEPTION_OCCURED" (socket.py line 100).
ExceptionOccured ==
    <<69, 88, 67, 69, 80, 84, 73, 79, 78, 95, 79, 67, 67, 85, 82, 69, 68>>

SeqsUpTo(S, n) == UNION {[1..k -> S] : k \in 0..n}

Min(a, b) == IF a < b THEN a ELSE b

\* s[n:] and s[:n] of Python, for a sequence indexed from 1.
Drop(s, n) == IF n >= Len(s) THEN <<>> ELSE SubSeq(s, n + 1, Len(s))
Take(s, n) == IF n <= 0 THEN <<>> ELSE SubSeq(s, 1, Min(n, Len(s)))

IsPrefix(s, t) == Len(s) <= Len(t) /\ s = Take(t, Len(s))

RECURSIVE Flatten(_)
Flatten(ss) == IF ss = <<>> THEN <<>> ELSE Head(ss) \o Flatten(Tail(ss))

\* The output pumps and the keep-alive pump of a bridge, with the stream id
\* each puts in front of its byte (lines 593, 603, 613).
Pumps == {"stdout", "stderr", "null"}
StreamId(t) == CASE t = "null" -> 0 [] t = "stdout" -> 1 [] t = "stderr" -> 2

\* The connection right after BEGIN was sent and received (server line 271,
\* client line 241): out and err are what the guest command will write,
\* lines what the client's stdin will deliver, in_eof whether that stdin is
\* at end-of-file after them (select reports it readable, readline gives "").
\* s2c and c2s are the bytes in flight either way; wrote is the history of
\* the server's sends, typed that of the lines the client has sent.
NewIo(out, err, lines, in_eof) ==
    [pc |-> "exec",
     src |-> [t \in {"stdout", "stderr"} |-> IF t = "stdout" THEN out ELSE err],
     pos |-> [t \in Pumps |-> "idle"],
     byte |-> [t \in Pumps |-> 0],
     mutex |-> "",
     nulls |-> 0,
     t_recv |-> "idle",
     client_sock |-> "open",
     released |-> FALSE,
     kills |-> 0,
     stdin |-> <<>>,
     s2c |-> <<>>,
     wrote |-> <<>>,
     c2s |-> <<>>,
     c_recv |-> "run",
     c_exc |-> "",
     c_send |-> "run",
     recv_closed |-> FALSE,
     written |-> <<>>,
     lines |-> lines,
     in_eof |-> in_eof,
     typed |-> <<>>,
     out0 |-> out,
     err0 |-> err]

\* What the steps on the connection leave alone.
ioFrame == <<containers, objs, nobj, dirs, startup_mutex, mainVars, nconn, workerVars,
             startedSince, launchVars, dirFiles, wire, bridge, client, boot, cfg, alloc, frames, link>>

IoStep(r) == io' = r /\ UNCHANGED ioFrame

\* The thread flags of the connection as send_and_recv reads them
\* (is_alive), and the state of the two ends as a send sees it.
IoThreads ==
    [t_recv |-> io.t_recv # "done", t_send_null |-> io.pos["null"] # "done",
     t_send_stdout |-> io.pos["stdout"] # "done",
     t_send_stderr |-> io.pos["stderr"] # "done",
     peer |-> IF io.c_recv = "done" THEN "closed" ELSE "open",
     client_sock |-> io.client_sock]

\* Lines 273-283 and 561-568: Container.run, then the four threads are
\* started.  execOk: exec_command did not raise; otherwise start_connection
\* sends EXCEPTION_OCCURED (lines 195-197) and closes the socket (199).
Io_Exec(execOk) ==
    /\ io.pc = "exec"
    /\ IF execOk
       THEN IoStep([io EXCEPT !.pc = "loop",
                              !.pos = [t \in Pumps |->
                                         IF t = "null" THEN "acquire" ELSE "read"],
                              !.t_recv = "recv"])
       ELSE IoStep([io EXCEPT !.pc = "raised",
                              !.s2c = @ \o ExceptionOccured,
                              !.wrote = Append(@, ExceptionOccured),
                              !.pos = [t \in Pumps |-> "done"],
                              !.t_recv = "done",
                              !.client_sock = "closed",
                              !.released = TRUE])

\* _send_stdout / _send_stderr, lines 591 and 601: read(1) gives the next
\* byte of the guest's stream, or b"" at its end and the thread returns.
Pump_Read(t) ==
    /\ t \in {"stdout", "stderr"} /\ io.pos[t] = "read"
    /\ IF io.src[t] = <<>>
       THEN IoStep([io EXCEPT !.pos[t] = "done"])
       ELSE IoStep([io EXCEPT !.pos[t] = "acquire",
                              !.byte[t] = Head(io.src[t]),
                              !.src[t] = Tail(@)])

\* Lines 592, 602, 612: mutex.acquire() blocks while another pump holds it.
Pump_Acquire(t) ==
    /\ t \in Pumps /\ io.pos[t] = "acquire" /\ io.mutex = ""
    /\ IoStep([io EXCEPT !.pos[t] = "send", !.mutex = t])

\* Lines 593-594 (603-604, 613-615): one send of the two bytes of a frame,
\* then the mutex is released; a send that raises is caught and the mutex
\* released there (595-597), and the thread returns.  The keep-alive pump
\* sleeps a second between frames.
Pump_Send(t) ==
    /\ t \in Pumps /\ io.pos[t] = "send"
    /\ IF SendFails(IoThreads)
       THEN IoStep([io EXCEPT !.pos[t] = "done", !.mutex = ""])
       ELSE IoStep([io EXCEPT !.pos[t] = IF t = "null" THEN "sleep" ELSE "read",
                              !.mutex = "",
                              !.nulls = IF t = "null" THEN @ + 1 ELSE @,
                              !.s2c = @ \o <<StreamId(t), io.byte[t]>>,
                              !.wrote = Append(@, <<StreamId(t), io.byte[t]>>)])

\* Line 615: the sleep of the keep-alive pump is over.
Null_Wake ==
    /\ io.pos["null"] = "sleep"
    /\ io.nulls < MaxNull \/ SendFails(IoThreads)
    /\ IoStep([io EXCEPT !.pos["null"] = "acquire"])

\* Lines 570-576: the loop breaks and client_sock.close() is called.  A
\* close while _recv is blocked in recv on the same socket is platform
\* dependent: wakes says the blocked call is aborted; otherwise the
\* connection stays up, with no end-of-file for the client, until that recv
\* returns.
Srv_Poll(wakes) ==
    /\ io.pc = "loop" /\ BridgeBreaks(IoThreads)
    /\ IoStep([io EXCEPT !.pc = "closed",
                         !.client_sock = "closed",
                         !.t_recv = IF wakes THEN "done" ELSE @,
                         !.released = wakes \/ io.t_recv = "done"])

\* Line 577: kill -9 of the guest PID through the SSH session; the handler
\* returns.
Srv_Kill ==
    /\ io.pc = "closed"
    /\ IoStep([io EXCEPT !.pc = "done", !.kills = @ + 1])

\* _recv lines 582-585 on one received msg: the first byte is taken as a
\* size, the size bytes after it are written to the guest's stdin, and the
\* rest is gone through the same way.
RECURSIVE StdinWrites(_)
StdinWrites(msg) ==
    IF msg = <<>> THEN <<>>
    ELSE LET size == msg[1] IN
         Take(Drop(msg, 1), size) \o StdinWrites(Drop(msg, size + 1))

\* Sizes of the reads the transport hands out of n pending bytes: one, two
\* or three bytes, a whole chunk more or less, or all of them.
ReadSizes(n, bufsize) ==
    {k \in {1, 2, 3, ChunkMax, ChunkMax + 1, n} : k <= n /\ k <= bufsize}

\* _recv line 581: recv returns k of the pending bytes; they are written as
\* lines 582-585 say.  The next recv is on a socket the main loop may have
\* closed meanwhile: it raises, the thread returns (586-587) and the
\* connection is released.
Srv_Recv(k) ==
    /\ io.t_recv = "recv" /\ io.c2s # <<>>
    /\ k \in ReadSizes(Len(io.c2s), SrvRecvBuf)
    /\ IoStep([io EXCEPT !.stdin = @ \o StdinWrites(Take(io.c2s, k)),
                         !.c2s = Drop(@, k),
                         !.t_recv = IF io.client_sock = "closed" THEN "done" ELSE @,
                         !.released = @ \/ io.client_sock = "closed"])

\* _recv line 581: recv returns b"", the client has closed the connection.
Srv_Recv_Eof ==
    /\ io.t_recv = "recv" /\ io.c2s = <<>> /\ io.c_recv = "done"
    /\ IoStep([io EXCEPT !.t_recv = "done",
                         !.released = @ \/ io.client_sock = "closed"])

\* _RunCommandClient._recv lines 430-444 on one received msg, from index i
\* (counted from 1), acc being what was written to out_stream so far, each
\* byte with the stream id it came under.
RECURSIVE ParseFrames(_, _, _)
ParseFrames(msg, i, acc) ==
    IF i > Len(msg) THEN [written |-> acc, exc |-> ""]
    ELSE IF i + 1 > Len(msg) THEN [written |-> acc, exc |-> "IndexError"]
    ELSE LET stream == msg[i]
             mybyte == msg[i + 1]
         IN  IF stream = 0 THEN ParseFrames(msg, i + 2, acc)
             ELSE IF stream \in {1, 2}
             THEN IF mybyte >= AsciiEnd
                  THEN [written |-> acc, exc |-> "UnicodeDecodeError"]
                  ELSE ParseFrames(msg, i + 2, Append(acc, <<stream, mybyte>>))
             ELSE [written |-> acc, exc |-> "RuntimeError"]

\* The reader of the client is through: lines 447-449.
ReaderEnds(r, e) ==
    [r EXCEPT !.c_recv = "done", !.c_exc = e, !.recv_closed = TRUE]

\* _RunCommandClient._recv line 429: recv returns k of the pending bytes,
\* which are gone through as lines 430-444 say; an exception ends the
\* thread through finally.
Cli_Recv(k) ==
    /\ io.c_recv = "run" /\ io.s2c # <<>>
    /\ k \in ReadSizes(Len(io.s2c), RecvBuf)
    /\ LET r == ParseFrames(Take(io.s2c, k), 1, io.written)
           n == [io EXCEPT !.s2c = Drop(@, k), !.written = r.written]
       IN  IoStep(IF r.exc = "" THEN n ELSE ReaderEnds(n, r.exc))

\* Line 429: recv returns b"", the server's end of the connection is
\* released.
Cli_Recv_Eof ==
    /\ io.c_recv = "run" /\ io.s2c = <<>> /\ io.released
    /\ IoStep(ReaderEnds(io, ""))

\* _send_select lines 379-382: the chunks buffer is sent in, each with its
\* length in front.
RECURSIVE Chunks(_)
Chunks(buffer) ==
    IF buffer = <<>> THEN <<>>
    ELSE LET msg == Take(buffer, ChunkMax) IN
         <<Len(msg)>> \o msg \o Chunks(Drop(buffer, ChunkMax))

\* _send_select lines 376-383: stdin is readable, the line is read and sent
\* in chunks.  A send on a connection the server has released raises, and
\* the thread returns through finally (387-390).
Cli_Send_Line ==
    /\ io.c_send = "run" /\ ~io.recv_closed /\ io.lines # <<>>
    /\ IF io.released
       THEN IoStep([io EXCEPT !.c_send = "done"])
       ELSE IoStep([io EXCEPT !.c2s = @ \o Chunks(Head(io.lines)),
                              !.typed = @ \o Head(io.lines),
                              !.lines = Tail(@)])

\* _send_select lines 384-385: stdin is not readable and nothing was sent
\* for a second: a keep-alive, the single byte 0.  With stdin at
\* end-of-file line 377 holds on every pass, readline gives "" and line 383
\* refreshes last_send: no keep-alive is sent.
Cli_Keepalive ==
    /\ io.c_send = "run" /\ ~io.recv_closed /\ io.lines = <<>> /\ ~io.in_eof
    /\ Len(io.c2s) < MaxPending
    /\ IF io.released
       THEN IoStep([io EXCEPT !.c_send = "done"])
       ELSE IoStep([io EXCEPT !.c2s = @ \o <<0>>])

\* _send_select line 376: recv_closed is seen and the thread returns.
Cli_Send_Exit ==
    /\ io.c_send = "run" /\ io.recv_closed
    /\ IoStep([io EXCEPT !.c_send = "done"])

\* The stdin of the client: a short line, and one of a whole chunk and a
\* byte more ('a' 255 times and the newline).
ShortLine == <<97, 10>>
LongLine == [i \in 1..(ChunkMax + 1) |-> IF i > ChunkMax THEN 10 ELSE 97]

\* The output direction: Container.run, the pumps, the main loop and the
\* reader of the client, for every output of the guest command within the
\* bounds; the client has a terminal nobody types on.
InitOut ==
    /\ InitGuestDaemon /\ boot = NoBoot /\ cfg = NoCfg /\ alloc = NoAlloc /\ frames = NoFrames /\ link = NoLink
    /\ \E out \in SeqsUpTo(OutBytes, MaxOut), err \in SeqsUpTo(ErrBytes, MaxErr) :
          io = NewIo(out, err, <<>>, FALSE)

NextOut ==
    \/ \E execOk \in BOOLEAN : Io_Exec(execOk)
    \/ \E t \in Pumps : Pump_Read(t)
    \/ \E t \in Pumps : Pump_Acquire(t)
    \/ \E t \in Pumps : Pump_Send(t)
    \/ Null_Wake
    \/ \E wakes \in BOOLEAN : Srv_Poll(wakes)
    \/ Srv_Kill
    \/ \E k \in ReadSizes(Len(io.s2c), RecvBuf) : Cli_Recv(k)
    \/ Cli_Recv_Eof

SpecOut == InitOut /\ [][NextOut]_vars

\* The input direction: the sender of the client and _recv of the bridge,
\* for up to two short lines of stdin, or the long one.
InitIn ==
    /\ InitGuestDaemon /\ boot = NoBoot /\ cfg = NoCfg /\ alloc = NoAlloc /\ frames = NoFrames /\ link = NoLink
    /\ \E lines \in SeqsUpTo({ShortLine}, 2) \cup {<<LongLine>>}, in_eof \in BOOLEAN :
          io = NewIo(<<>>, <<>>, lines, in_eof)

NextIn ==
    \/ Io_Exec(TRUE)
    \/ Cli_Send_Line
    \/ Cli_Keepalive
    \/ \E k \in ReadSizes(Len(io.c2s), SrvRecvBuf) : Srv_Recv(k)

SpecIn == InitIn /\ [][NextIn]_vars

\* A whole RUN-COMMAND: both directions, the guest command writing at most
\* one byte and the client's stdin delivering at most one line.
InitRun ==
    /\ InitGuestDaemon /\ boot = NoBoot /\ cfg = NoCfg /\ alloc = NoAlloc /\ frames = NoFrames /\ link = NoLink
    /\ \E out \in SeqsUpTo({104}, 1), lines \in SeqsUpTo({ShortLine}, 1),
          in_eof \in BOOLEAN :
          io = NewIo(out, <<>>, lines, in_eof)

NextRun ==
    \/ \E execOk \in BOOLEAN : Io_Exec(execOk)
    \/ \E t \in Pumps : Pump_Read(t)
    \/ \E t \in Pumps : Pump_Acquire(t)
    \/ \E t \in Pumps : Pump_Send(t)
    \/ Null_Wake
    \/ \E wakes \in BOOLEAN : Srv_Poll(wakes)
    \/ Srv_Kill
    \/ \E k \in ReadSizes(Len(io.c2s), SrvRecvBuf) : Srv_Recv(k)
    \/ Srv_Recv_Eof
    \/ \E k \in ReadSizes(Len(io.s2c), RecvBuf) : Cli_Recv(k)
    \/ Cli_Recv_Eof
    \/ Cli_Send_Line
    \/ Cli_Keepalive
    \/ Cli_Send_Exit

\* Every thread of both ends is scheduled.
SpecRun ==
    /\ InitRun /\ [][NextRun]_vars
    /\ WF_vars(\E execOk \in BOOLEAN : Io_Exec(execOk))
    /\ \A t \in Pumps :
          WF_vars(Pump_Read(t)) /\ WF_vars(Pump_Acquire(t)) /\ WF_vars(Pump_Send(t))
    /\ WF_vars(Null_Wake)
    /\ WF_vars(\E wakes \in BOOLEAN : Srv_Poll(wakes))
    /\ WF_vars(Srv_Kill)
    /\ WF_vars(\E k \in ReadSizes(Len(io.c2s), SrvRecvBuf) : Srv_Recv(k))
    /\ WF_vars(Srv_Recv_Eof)
    /\ WF_vars(\E k \in ReadSizes(Len(io.s2c), RecvBuf) : Cli_Recv(k))
    /\ WF_vars(Cli_Recv_Eof)
    /\ WF_vars(Cli_Send_Line)
    /\ WF_vars(Cli_Keepalive)
    /\ WF_vars(Cli_Send_Exit)

\* ----------------------------- Container.start, attempt by attempt

PortLow == 12300         \* default low of allocate_port
PoolSize == 3            \* ports from PortLow up that other processes bind and free

\* The ports of the host that other processes take and give back while the
\* container starts.
PortPool == PortLow..(PortLow + PoolSize - 1)

\* portfwd of the container's config, a list of (guest port, host port):
\* none, one away from the range allocate_port scans, and one inside it.
PortFwds ==
    {<<>>, <<<<80, 8080>>>>, <<<<80, PortLow>>>>, <<<<80, 8080>>, <<443, PortLow + 1>>>>}

HostPorts(portfwd) == {portfwd[i][2] : i \in 1..Len(portfwd)}

\* _generate_start_cmd lines 180-181: the host ports of the hostfwd
\* argument, the pairs of portfwd first and the SSH pair last.
hostfwds(portfwd, ex_port) == [i \in 1..Len(portfwd) |-> portfwd[i][2]] \o <<ex_port>>

\* gen_boot_exception: what the failed expect is classified as from the
\* boot log, a port collision or another boot failure.
gen_boot_exception(outcome) ==
    IF outcome = "collision" THEN "PortAllocationError" ELSE "BootFailure"

\* A loop that goes round on every failed attempt.
Retries_Any(my_exc) == TRUE

\* Line 74: the failed attempt is a port collision, the loop goes round.
Retries(my_exc) == my_exc = "PortAllocationError"

\* A Container whose start() has just been called: occupied are the ports
\* psutil reports in use.
NewBoot(portfwd, occupied) ==
    [pc |-> "alloc", portfwd |-> portfwd, occupied |-> occupied,
     attempts |-> 0, allocs |-> 0, ex_port |-> 0, cmd |-> <<>>, booter |-> "none",
     collided |-> 0, exc |-> "", login_port |-> 0, ssh_port |-> 0]

bootFrame == <<containers, objs, nobj, dirs, startup_mutex, mainVars, nconn, workerVars,
               startedSince, launchVars, dirFiles, wire, bridge, client, io, cfg, alloc, frames, link>>

BootStep(r) == boot' = r /\ UNCHANGED bootFrame

\* Another process binds a port of the pool, or gives one back.
Os_Bind(p) ==
    /\ boot.pc \in {"alloc", "popen", "expect"} /\ p \in PortPool \ boot.occupied
    /\ BootStep([boot EXCEPT !.occupied = @ \cup {p}])

Os_Free(p) ==
    /\ boot.pc \in {"alloc", "popen", "expect"} /\ p \in boot.occupied
    /\ BootStep([boot EXCEPT !.occupied = @ \ {p}])

\* Lines 63-64: the loop has an iteration left and allocates the SSH host
\* port; when range(max_retries) is used up the else of the for raises
\* PortAllocationError (78-79).
Ct_Allocate ==
    /\ boot.pc = "alloc"
    /\ IF boot.attempts = max_retries
       THEN BootStep([boot EXCEPT !.pc = "failed", !.exc = "PortAllocationError"])
       ELSE LET port == allocate_port(PortLow, PortHigh, boot.occupied) IN
            IF port = 0
            THEN BootStep([boot EXCEPT !.pc = "failed", !.exc = "PortAllocationError"])
            ELSE BootStep([boot EXCEPT !.pc = "popen", !.ex_port = port,
                                       !.allocs = @ + 1])

\* Lines 65-69: the command line is generated and QEMU spawned.
Ct_Popen ==
    /\ boot.pc = "popen"
    /\ BootStep([boot EXCEPT !.pc = "expect", !.attempts = @ + 1, !.booter = "alive",
                             !.cmd = hostfwds(boot.portfwd, boot.ex_port)])

\* Lines 70-77: expect sees the login prompt and the loop is left, or it
\* fails (EOF or timeout) and the failure is classified: a port collision
\* sends the loop round, anything else is raised.
Ct_Expect(outcome) ==
    /\ boot.pc = "expect"
    /\ outcome \in {"login", "collision", "other"}
    /\ IF outcome = "login"
       THEN BootStep([boot EXCEPT !.pc = "ssh", !.login_port = boot.ex_port])
       ELSE LET my_exc == gen_boot_exception(outcome) IN
            IF ~Retries(my_exc)
            THEN BootStep([boot EXCEPT !.pc = "failed", !.exc = my_exc,
                                       !.booter = "dead"])
            ELSE BootStep([boot EXCEPT !.pc = "alloc", !.booter = "dead",
                                       !.collided = IF outcome = "collision"
                                                    THEN @ + 1 ELSE @])

\* Lines 81-90: the SSH session is opened to 127.0.0.1:ex_port.
Ct_Ssh ==
    /\ boot.pc = "ssh"
    /\ BootStep([boot EXCEPT !.pc = "started", !.ssh_port = boot.ex_port])

InitBoot ==
    /\ InitGuestDaemon /\ io = NoIo /\ cfg = NoCfg /\ alloc = NoAlloc /\ frames = NoFrames /\ link = NoLink
    /\ \E portfwd \in PortFwds, occupied \in SUBSET PortPool :
          boot = NewBoot(portfwd, occupied)

NextBoot ==
    \/ \E p \in PortPool : Os_Bind(p)
    \/ \E p \in PortPool : Os_Free(p)
    \/ Ct_Allocate
    \/ Ct_Popen
    \/ \E outcome \in {"login", "collision", "other"} : Ct_Expect(outcome)
    \/ Ct_Ssh

SpecBoot == InitBoot /\ [][NextBoot]_vars

\* --------------------------------------- ContainerConfig (container_config.py)

MaxOff == 2              \* fields in which a manifest differs from a valid one
MaxPairs == 2            \* pairs in a portfwd list
MANIFEST_VERSION == 1    \* src.globals.MANIFEST_VERSION
PortRangeEnd == 65535    \* range(1, 65535) in ContainerConfig.__init__
SshPort == 22            \* vtaken = {22}, htaken = {22}

\* src.globals.SUPPORTED_ARCHS.
SUPPORTED_ARCHS == {<<"x86_64">>, <<"aarch64">>, <<"mipsel">>}

\* A JSON value: its Python type t and, by type, the integer n, the string
\* s (a sequence of characters, or of one word) or the list l (of lists of
\* values).  "absent" stands for a key the dictionary does not have.
Val(t, n, s, l) == [t |-> t, n |-> n, s |-> s, l |-> l]
Absent == Val("absent", 0, <<>>, <<>>)
NoneV == Val("none", 0, <<>>, <<>>)
IntV(n) == Val("int", n, <<>>, <<>>)
BoolV(b) == Val("bool", IF b THEN 1 ELSE 0, <<>>, <<>>)
StrV(s) == Val("str", 0, s, <<>>)
ListV(l) == Val("list", 0, <<>>, l)
DictV(s) == Val("dict", 0, s, <<>>)

\* One element of a list inside portfwd.
IntE(n) == [t |-> "int", n |-> n]
StrE == [t |-> "str", n |-> 0]
Pair(vport, hport) == <<IntE(vport), IntE(hport)>>

Keys == {"manifest", "arch", "arguments", "hostname", "memory", "hddmaxsize",
         "portfwd", "username", "password", "__legacy"}

\* Python's isinstance(v, int) (bool is a subclass of int), truth value, and
\* dict.get.
IsInt(v) == v.t \in {"int", "bool"}
Falsy(v) ==
    \/ v.t \in {"absent", "none"}
    \/ IsInt(v) /\ v.n = 0
    \/ v.t = "str" /\ v.s = <<>>
    \/ v.t = "list" /\ v.l = <<>>
Get(manifest, k) == IF manifest[k].t = "absent" THEN NoneV ELSE manifest[k]
Has(manifest, k) == manifest[k].t # "absent"

\* _LEGACY_CT_CONFIG (lines 12-15) and what _convert_legacy makes of it
\* (lines 123-133).
LEGACY_CT_CONFIG ==
    [k \in Keys |->
       CASE k = "arch" -> StrV(<<"x86_64">>)
         [] k = "arguments" -> DictV(<<"m=500M", "drive=file=hdd.qcow2,format=qcow2">>)
         [] OTHER -> Absent]

Debian == <<"d", "e", "b", "i", "a", "n">>

ConvertedLegacy ==
    [k \in Keys |->
       CASE k = "manifest" -> IntV(0)
         [] k = "arch" -> StrV(<<"x86_64">>)
         [] k = "memory" -> IntV(2500)
         [] k = "hddmaxsize" -> IntV(25)
         [] k = "hostname" -> StrV(Debian)
         [] k = "portfwd" -> ListV(<<>>)
         [] k = "username" -> StrV(<<"root">>)
         [] k = "password" -> StrV(<<"root">>)
         [] k = "__legacy" -> BoolV(TRUE)
         [] OTHER -> Absent]

\* re.fullmatch(r"[A-Za-z][A-Za-z0-9]{2,}", hname) for a string of the
\* characters the model uses: letters, the digit 7, and the hyphen.
Letters == {"a", "b", "d", "e", "h", "i", "n"}
Digits == {"7"}
fullmatch(hname) ==
    /\ Len(hname) >= 3
    /\ hname[1] \in Letters
    /\ \A i \in 2..Len(hname) : hname[i] \in Letters \cup Digits

\* x in range(a, b) for a value of any type.
InRange(v, a, b) == IsInt(v) /\ a <= v.n /\ v.n < b

\* Lines 51-54.
ArchErrors(manifest) ==
    IF ~Has(manifest, "arch") THEN <<"'arch' is not an optional field.">>
    ELSE IF ~(manifest["arch"].t = "str" /\ manifest["arch"].s \in SUPPORTED_ARCHS)
    THEN <<"not a valid architecture.">>
    ELSE <<>>

\* Lines 56-61: manifest["hostname"] is subscripted whether or not the key
\* is there, and given to re.fullmatch whatever its type.
HostnameRaises(manifest) ==
    IF ~Has(manifest, "hostname") THEN "KeyError"
    ELSE IF manifest["hostname"].t # "str" THEN "TypeError"
    ELSE ""

HostnameErrors(manifest) ==
    IF fullmatch(manifest["hostname"].s) THEN <<>> ELSE <<"Invalid hostname">>

\* Lines 63-66 and 68-71, for k = "memory" and k = "hddmaxsize".
IntErrors(manifest, k) ==
    IF ~Has(manifest, k) THEN <<"'" \o k \o "' is not an optional field.">>
    ELSE IF ~IsInt(manifest[k]) THEN <<"'" \o k \o "' must be an integer.">>
    ELSE <<>>

\* Lines 84-96: the loop over the pairs from the i-th on, with the guest
\* and host ports taken so far.
RECURSIVE PairErrors(_, _, _, _)
PairErrors(portfwd, i, vtaken, htaken) ==
    IF i > Len(portfwd) THEN <<>>
    ELSE LET vport == portfwd[i][1]
             hport == portfwd[i][2]
             vbad == ~InRange(vport, 1, PortRangeEnd)
             hbad == ~InRange(hport, 1, PortRangeEnd)
             verr == IF vbad THEN <<"Invalid port">>
                     ELSE IF vport.n \in vtaken THEN <<"Virtual port used more than once.">>
                     ELSE <<>>
             herr == IF hbad THEN <<"Invalid port">>
                     ELSE IF hport.n \in htaken THEN <<"Host port used more than once.">>
                     ELSE <<>>
         IN  verr \o herr \o
             PairErrors(portfwd, i + 1,
                        IF verr = <<>> THEN vtaken \cup {vport.n} ELSE vtaken,
                        IF herr = <<>> THEN htaken \cup {hport.n} ELSE htaken)

\* Lines 73-96.
PortfwdErrors(manifest) ==
    LET portfwd == manifest["portfwd"] IN
    IF ~Has(manifest, "portfwd") THEN <<>>
    ELSE IF portfwd.t # "list" THEN <<"'portfwd' must be an array.">>
    ELSE IF ~ \A i \in 1..Len(portfwd.l) :
                 Len(portfwd.l[i]) = 2 /\ \A j \in 1..Len(portfwd.l[i]) : IsInt(portfwd.l[i][j])
    THEN <<"The 'portfwd' argument is malformed.">>
    ELSE PairErrors(portfwd.l, 1, {SshPort}, {SshPort})

\* Lines 98-101.
PasswordErrors(manifest) ==
    IF Get(manifest, "password").t = "none" THEN <<"'password' is not an optional field.">>
    ELSE IF manifest["password"].t # "str" THEN <<"'password' must be a string.">>
    ELSE <<>>

\* The outcome of a construction: the exception raised ("" for none), the
\* messages of an InvalidConfigError, and the fields of the object.
NoFields == [k \in Keys |-> Absent]
Outcome(raised, errors, fields, legacy) ==
    [exc |-> raised, errors |-> errors, fields |-> fields, legacy |-> legacy]

\* Lines 108-118: the fields of the object; username is the class attribute
\* "root".
Fields(manifest) ==
    [k \in Keys |->
       CASE k \in {"arch", "memory", "hddmaxsize", "password"} -> manifest[k]
         [] k = "hostname" -> IF Falsy(Get(manifest, k)) THEN StrV(Debian) ELSE manifest[k]
         [] k = "portfwd" -> IF Falsy(Get(manifest, k)) THEN ListV(<<>>) ELSE manifest[k]
         [] k = "username" -> StrV(<<"root">>)
         [] OTHER -> Absent]

Legacy(manifest) ==
    IF manifest["__legacy"].t = "bool" THEN manifest["__legacy"].n = 1 ELSE FALSE

\* ContainerConfig.__init__ (lines 41-118) on the dictionary given.
ContainerConfig(given) ==
    LET version == Get(given, "manifest") IN
    IF version.t = "none" /\ given # LEGACY_CT_CONFIG
    THEN Outcome("UnsupportedLegacyConfigError", <<>>, NoFields, FALSE)
    ELSE IF version.t # "none" /\ ~InRange(version, 0, MANIFEST_VERSION + 1)
    THEN Outcome("InvalidConfigError", <<"Unknown manifest version">>, NoFields, FALSE)
    ELSE LET manifest == IF version.t = "none" THEN ConvertedLegacy ELSE given IN
         IF HostnameRaises(manifest) # ""
         THEN Outcome(HostnameRaises(manifest), <<>>, NoFields, FALSE)
         ELSE LET config_errors ==
                     ArchErrors(manifest) \o HostnameErrors(manifest)
                        \o IntErrors(manifest, "memory") \o IntErrors(manifest, "hddmaxsize")
                        \o PortfwdErrors(manifest) \o PasswordErrors(manifest)
              IN  IF config_errors # <<>>
                  THEN Outcome("InvalidConfigError", config_errors, NoFields, FALSE)
                  ELSE Outcome("", <<>>, Fields(manifest), Legacy(manifest))

\* A to_dict that writes the memory the way the legacy arguments did, as a
\* string.
to_dict_MemoryArg(c) ==
    [k \in Keys |->
       CASE k = "manifest" -> IntV(MANIFEST_VERSION)
         [] k = "memory" -> StrV(<<"M">>)
         [] k = "__legacy" -> IF c.legacy THEN BoolV(TRUE) ELSE Absent
         [] OTHER -> c.fields[k]]

\* ContainerConfig.to_dict (lines 137-151).
to_dict(c) ==
    [k \in Keys |->
       CASE k = "manifest" -> IntV(MANIFEST_VERSION)
         [] k = "__legacy" -> IF c.legacy THEN BoolV(TRUE) ELSE Absent
         [] OTHER -> c.fields[k]]

\* A manifest every rule accepts.
ValidManifest ==
    [k \in Keys |->
       CASE k = "manifest" -> IntV(MANIFEST_VERSION)
         [] k = "arch" -> StrV(<<"aarch64">>)
         [] k = "memory" -> IntV(512)
         [] k = "hddmaxsize" -> IntV(25)
         [] k = "hostname" -> StrV(<<"h", "h", "7">>)
         [] k = "portfwd" -> ListV(<<Pair(80, 8080)>>)
         [] k = "password" -> StrV(<<"root">>)
         [] OTHER -> Absent]

\* The pairs and lists portfwd is drawn from: ports at and around the ends
\* of the range, port 22, a guest port and a host port used twice, lists
\* of the wrong shape.
PortPairs ==
    {Pair(80, 8080), Pair(80, 9090), Pair(443, 8080), Pair(22, 8080), Pair(80, 22),
     Pair(1, 65534), Pair(80, 65535)}

PortfwdValues ==
    {Absent, NoneV, StrV(<<"80:8080">>), ListV(<<<<IntE(80)>>>>),
     ListV(<<<<IntE(80), StrE>>>>), ListV(<<<<IntE(80), IntE(8080), IntE(1)>>>>),
     ListV(<<Pair(0, 8080)>>), ListV(<<Pair(80, 65536)>>)}
       \cup {ListV(l) : l \in SeqsUpTo(PortPairs, MaxPairs)}

\* The values each key of a dictionary is drawn from.
Values(k) ==
    CASE k = "manifest" -> {Absent, NoneV, IntV(0), IntV(MANIFEST_VERSION),
                            IntV(MANIFEST_VERSION + 1), IntV(-1), StrV(<<"1">>)}
      [] k = "arch" -> {Absent, NoneV, StrV(<<"x86_64">>), StrV(<<"aarch64">>),
                        StrV(<<"mipsel">>), StrV(<<"sparc">>)}
      [] k = "arguments" -> {Absent, LEGACY_CT_CONFIG["arguments"], DictV(<<"m=1G">>)}
      [] k = "hostname" -> {Absent, NoneV, IntV(7), StrV(<<>>), StrV(<<"h", "h">>),
                            StrV(<<"h", "h", "7">>), StrV(<<"7", "h", "h">>),
                            StrV(<<"h", "-", "h">>), StrV(Debian)}
      [] k \in {"memory", "hddmaxsize"} ->
            {Absent, NoneV, IntV(512), IntV(1), IntV(0), IntV(-1), StrV(<<"512">>),
             BoolV(TRUE)}
      [] k = "portfwd" -> PortfwdValues
      [] k = "username" -> {Absent, StrV(<<"root">>), StrV(<<"admin">>)}
      [] k = "password" -> {Absent, NoneV, StrV(<<"root">>), StrV(<<>>), IntV(1234)}
      [] k = "__legacy" -> {Absent, BoolV(TRUE), BoolV(FALSE), StrV(<<"yes">>)}

cfgFrame == <<containers, objs, nobj, dirs, startup_mutex, mainVars, nconn, workerVars,
              startedSince, launchVars, dirFiles, wire, bridge, client, io, boot, alloc, frames, link>>

CfgStep(r) == cfg' = r /\ UNCHANGED cfgFrame

\* ContainerConfig(manifest) is called.
Cfg_Construct ==
    /\ cfg.pc = "new"
    /\ LET c == ContainerConfig(cfg.manifest) IN
       CfgStep([cfg EXCEPT !.pc = IF c.exc = "" THEN "constructed" ELSE "failed",
                           !.config = c])

\* to_dict() of the object.
Cfg_ToDict ==
    /\ cfg.pc = "constructed"
    /\ CfgStep([cfg EXCEPT !.pc = "dumped", !.dict = to_dict(cfg.config)])

\* ContainerConfig(d) for the dictionary to_dict gave, and to_dict() of
\* the object that makes.
Cfg_Reparse ==
    /\ cfg.pc = "dumped"
    /\ LET c == ContainerConfig(cfg.dict) IN
       CfgStep([cfg EXCEPT !.pc = "reparsed", !.again = c,
                           !.dict2 = IF c.exc = "" THEN to_dict(c) ELSE NoFields])

\* The state before the construction from the dictionary given.
NewCfg(given) ==
    [pc |-> "new", manifest |-> given,
     config |-> Outcome("", <<>>, NoFields, FALSE), dict |-> NoFields,
     again |-> Outcome("", <<>>, NoFields, FALSE), dict2 |-> NoFields]

KeySeq == <<"manifest", "arch", "arguments", "hostname", "memory", "hddmaxsize",
            "portfwd", "username", "password", "__legacy">>

\* The construction is given a dictionary that is m on the first i - 1
\* keys and differs from m in at most n of the others.
RECURSIVE Given(_, _, _)
Given(m, i, n) ==
    IF i > Len(KeySeq) THEN cfg = NewCfg(m)
    ELSE \E v \in (IF n = 0 THEN {m[KeySeq[i]]} ELSE Values(KeySeq[i]) \cup {m[KeySeq[i]]}) :
            Given([m EXCEPT ![KeySeq[i]] = v], i + 1, IF v = m[KeySeq[i]] THEN n ELSE n - 1)

\* The construction is given the historical literal, or a dictionary that
\* differs from it or from a valid manifest in at most MaxOff keys.
InitConfig ==
    /\ InitGuestDaemon /\ io = NoIo /\ boot = NoBoot /\ alloc = NoAlloc /\ frames = NoFrames /\ link = NoLink
    /\ \E base \in {ValidManifest, LEGACY_CT_CONFIG} : Given(base, 1, MaxOff)

NextConfig ==
    \/ Cfg_Construct
    \/ Cfg_ToDict
    \/ Cfg_Reparse

SpecConfig == InitConfig /\ [][NextConfig]_vars

\* ----------------------------------- allocate_port, probe by probe

\* The call has not been made yet.
IdleAlloc ==
    [pc |-> "idle", platform |-> "", low |-> 0, high |-> 0, port |-> 0,
     at_call |-> {}, busy |-> {}, free |-> {}, changed |-> FALSE, result |-> 0]

allocFrame == <<containers, objs, nobj, dirs, startup_mutex, mainVars, nconn, workerVars,
                startedSince, cpc, dpc, dport, dirFiles, wire, bridge, client, io, boot, cfg,
                frames, link>>

\* Another process binds or connects from port p, or gives it back; changed
\* records that this happened while allocate_port was running.
Net_Bind(p) ==
    /\ p \notin boundPorts
    /\ boundPorts' = boundPorts \cup {p}
    /\ alloc' = [alloc EXCEPT !.changed = @ \/ alloc.pc = "scan"]
    /\ UNCHANGED allocFrame

Net_Free(p) ==
    /\ p \in boundPorts
    /\ boundPorts' = boundPorts \ {p}
    /\ alloc' = [alloc EXCEPT !.changed = @ \/ alloc.pc = "scan"]
    /\ UNCHANGED allocFrame

\* allocate_port(low, high) is entered on the platform given (line 21).
Alloc_Call(platform, low, high) ==
    /\ alloc.pc = "idle"
    /\ alloc' = [alloc EXCEPT !.pc = "scan", !.platform = platform, !.low = low,
                              !.high = high, !.port = low, !.at_call = boundPorts]
    /\ UNCHANGED <<boundPorts, allocFrame>>

\* Lines 28-35: the ports psutil reports are collected once, and the loop
\* runs over that set.
Alloc_Psutil ==
    /\ alloc.pc = "scan" /\ alloc.platform # "darwin"
    /\ LET occupied_ports == boundPorts
           port == allocate_port(alloc.low, alloc.high, occupied_ports)
       IN  alloc' = [alloc EXCEPT !.pc = IF port = 0 THEN "failed" ELSE "returned",
                                  !.result = port,
                                  !.busy = occupied_ports,
                                  !.free = PortPool \ occupied_ports]
    /\ UNCHANGED <<boundPorts, allocFrame>>

\* Lines 22-24 and 35: one iteration of the loop on darwin, lsof run for
\* the port the loop is at.
Alloc_Lsof ==
    /\ alloc.pc = "scan" /\ alloc.platform = "darwin"
    /\ IF alloc.port > alloc.high
       THEN alloc' = [alloc EXCEPT !.pc = "failed"]
       ELSE IF alloc.port \notin boundPorts
       THEN alloc' = [alloc EXCEPT !.pc = "returned", !.result = alloc.port,
                                   !.free = @ \cup {alloc.port}]
       ELSE alloc' = [alloc EXCEPT !.port = @ + 1, !.busy = @ \cup {alloc.port}]
    /\ UNCHANGED <<boundPorts, allocFrame>>

InitAlloc ==
    /\ InitGuestDaemon /\ io = NoIo /\ boot = NoBoot /\ cfg = NoCfg
    /\ alloc = IdleAlloc /\ frames = NoFrames /\ link = NoLink

NextAlloc ==
    \/ \E p \in PortPool : Net_Bind(p)
    \/ \E p \in PortPool : Net_Free(p)
    \/ \E platform \in {"linux", "darwin"}, low, high \in PortPool :
          Alloc_Call(platform, low, high)
    \/ Alloc_Psutil
    \/ Alloc_Lsof

SpecAlloc == InitAlloc /\ [][NextAlloc]_vars


\* ------------------ the frame lock shared by the RUN-COMMAND sessions

\* _RunCommandHandler.mutex (line 535) is a class attribute: one
\* threading.Lock for the pumps of every session of the process.
Sessions == 1..NumCli
PumpIds == Sessions \X Pumps
NoPump == <<0, "">>

\* The sessions right after send_and_recv started their threads (561-568).
\* pos is the statement each pump is at, mutex the pump whose acquire was
\* the last to succeed while the lock is locked, inside whether a pump is
\* between its acquire and the release that follows it, left the frames
\* the pumps may still begin.
NewFrames ==
    [pc |-> "pumps",
     mutex |-> NoPump,
     pos |-> [p \in PumpIds |-> IF p[2] = "null" THEN "acquire" ELSE "read"],
     inside |-> [p \in PumpIds |-> FALSE],
     client_sock |-> [s \in Sessions |-> "open"],
     left |-> MaxOut]

framesFrame == <<containers, objs, nobj, dirs, startup_mutex, mainVars, nconn, workerVars,
                 startedSince, launchVars, dirFiles, wire, bridge, client, io, boot, cfg, alloc,
                 link>>

FramesStep(r) == frames' = r /\ UNCHANGED framesFrame

\* threading.Lock.release: the lock is unlocked whichever thread calls;
\* RuntimeError when it is not locked.
LockRelease(f, p) == [f EXCEPT !.mutex = NoPump, !.inside[p] = FALSE]

\* Lines 591 and 601: stdout.read(1) / stderr.read(1) inside the try.  got
\* is a byte, b"" at the end of the stream (the thread returns), or an
\* OSError of the channel file (closed file, channel timeout), which the
\* except clause of line 595 (605) catches.
Frames_Read(p, got) ==
    /\ frames.pc = "pumps" /\ p \in PumpIds /\ frames.pos[p] = "read"
    /\ got = "byte" => frames.left > 0
    /\ FramesStep([frames EXCEPT !.pos[p] =
                      CASE got = "byte" -> "acquire"
                        [] got = "eof" -> "done"
                        [] got = "error" -> "caught",
                                 !.left = IF got = "byte" THEN @ - 1 ELSE @])

\* Lines 592, 602, 612.
Frames_Acquire(p) ==
    /\ frames.pc = "pumps" /\ p \in PumpIds /\ frames.pos[p] = "acquire"
    /\ frames.mutex = NoPump
    /\ p[2] = "null" => frames.left > 0
    /\ FramesStep([frames EXCEPT !.pos[p] = "send", !.mutex = p, !.inside[p] = TRUE,
                                 !.left = IF p[2] = "null" THEN @ - 1 ELSE @])

\* Lines 593, 603, 613: send raises when the socket of the session is
\* closed or its peer gone.
Frames_Send(p) ==
    /\ frames.pc = "pumps" /\ p \in PumpIds /\ frames.pos[p] = "send"
    /\ FramesStep([frames EXCEPT !.pos[p] =
                      IF frames.client_sock[p[1]] = "open" THEN "release" ELSE "caught"])

\* Lines 594, 604, 614-615: release, and the loop goes round (the
\* keep-alive pump after its sleep).  A release of an unlocked lock raises
\* RuntimeError, which no clause catches: the thread ends.
Frames_Release(p) ==
    /\ frames.pc = "pumps" /\ p \in PumpIds /\ frames.pos[p] = "release"
    /\ IF frames.mutex = NoPump
       THEN FramesStep([frames EXCEPT !.pos[p] = "done", !.inside[p] = FALSE])
       ELSE FramesStep([LockRelease(frames, p) EXCEPT !.pos[p] =
                           IF p[2] = "null" THEN "acquire" ELSE "read"])

\* Lines 596, 606, 617: if self.mutex.locked().
Frames_Locked(p) ==
    /\ frames.pc = "pumps" /\ p \in PumpIds /\ frames.pos[p] = "caught"
    /\ FramesStep([frames EXCEPT !.pos[p] =
                      IF frames.mutex # NoPump THEN "handler_release" ELSE "done",
                                 !.inside[p] = IF frames.mutex # NoPump THEN @ ELSE FALSE])

\* Lines 597, 607, 618: self.mutex.release() of the except clause.
Frames_HandlerRelease(p) ==
    /\ frames.pc = "pumps" /\ p \in PumpIds /\ frames.pos[p] = "handler_release"
    /\ IF frames.mutex = NoPump
       THEN FramesStep([frames EXCEPT !.pos[p] = "done", !.inside[p] = FALSE])
       ELSE FramesStep([LockRelease(frames, p) EXCEPT !.pos[p] = "done"])

\* Line 576 (or the client going away): the socket of session s stops
\* taking sends.
Frames_Close(s) ==
    /\ frames.pc = "pumps" /\ s \in Sessions /\ frames.client_sock[s] = "open"
    /\ FramesStep([frames EXCEPT !.client_sock[s] = "closed"])

InitFrames ==
    /\ InitGuestDaemon /\ io = NoIo /\ boot = NoBoot /\ cfg = NoCfg /\ alloc = NoAlloc
    /\ frames = NewFrames /\ link = NoLink

NextFrames ==
    \/ \E p \in PumpIds, got \in {"byte", "eof", "error"} : Frames_Read(p, got)
    \/ \E p \in PumpIds : Frames_Acquire(p)
    \/ \E p \in PumpIds : Frames_Send(p)
    \/ \E p \in PumpIds : Frames_Release(p)
    \/ \E p \in PumpIds : Frames_Locked(p)
    \/ \E p \in PumpIds : Frames_HandlerRelease(p)
    \/ \E s \in Sessions : Frames_Close(s)

SpecFrames == InitFrames /\ [][NextFrames]_vars


\* -------- one connection: a client-library method and the handler it calls

MaxArgv == 2             \* words of the command line of run_command

\* The request keyword each method sends after READY.
Keyword(m) ==
    CASE m = "ping" -> "PING"                  [] m = "started" -> "STARTED"
      [] m = "ssh_address" -> "SSH-ADDRESS"    [] m = "update_hostkey" -> "UPDATE-HOSTKEY"
      [] m = "start" -> "START"                [] m = "stop" -> "STOP"
      [] m = "kill" -> "KILL"                  [] m = "get_file" -> "GET-FILE"
      [] m = "put_file" -> "PUT-FILE"          [] m = "run_command" -> "RUN-COMMAND"
      [] m = "install" -> "INSTALL"            [] m = "archive" -> "ARCHIVE"
      [] m = "delete" -> "DELETE"              [] m = "rename" -> "RENAME"

\* The fields a method sends, each after a CONT: run_command sends the
\* name, the length of the command line and then each of its words
\* (client lines 232-239, server 255-263).
FieldCount(m, argc) == IF m = "run_command" THEN 2 + argc ELSE ContFields(m)

\* The statements of a handler that use the socket.
Send(msg) == [dir |-> "send", msg |-> msg]
Recv == [dir |-> "recv", msg |-> <<>>]

\* sock.ok(), yes(), no(), begin(), raise_exception(), raise_boot_error():
\* one send.
Plain(kw) == <<Send(Msg(kw))>>

\* raise_unknown_request, raise_container_not_started,
\* raise_no_such_container, raise_container_started_cannot_modify,
\* raise_invalid_path, raise_is_a_directory (socket.py 102-156): the
\* keyword, a receive, then the parameter.
WithParameter(kw) == <<Send(Msg(kw)), Recv, Send(Msg("parameter"))>>

\* What a handler does on the socket after it has received its fields, for
\* each way it can end.  _start goes on after raise_no_such_container (there
\* is no return at line 295) to the mutex and the map: OK for a name that is
\* in the map, else Container() raises for the missing directory.
Replies(m) ==
    CASE m = "ping" -> {Plain("OK")}
      [] m = "started" -> {Plain("YES"), Plain("NO")}
      [] m = "ssh_address" -> {<<Send(AddressMsg)>>, WithParameter("CONTAINER_NOT_STARTED")}
      [] m = "update_hostkey" -> {WithParameter("CONTAINER_NOT_STARTED"),
                                  Plain("EXCEPTION_OCCURED")}
      [] m = "start" ->
           {Plain("OK"), Plain("BOOT_FAILURE"), Plain("EXCEPTION_OCCURED")}
              \cup {WithParameter("NO_SUCH_CONTAINER") \o r :
                       r \in {Plain("OK"), Plain("EXCEPTION_OCCURED")}}
      [] m \in {"stop", "kill"} ->
           {Plain("OK"), WithParameter("CONTAINER_NOT_STARTED"),
            WithParameter("UNKNOWN_REQUEST"), Plain("EXCEPTION_OCCURED")}
      [] m \in {"get_file", "put_file"} ->
           {Plain("OK"), WithParameter("CONTAINER_NOT_STARTED"),
            WithParameter("INVALID_PATH"), WithParameter("IS_A_DIRECTORY"),
            Plain("EXCEPTION_OCCURED")}
      [] m = "run_command" -> {Plain("BEGIN"), Plain("EXCEPTION_OCCURED")}
      [] m = "install" -> {Plain("OK"), WithParameter("INVALID_PATH"),
                           Plain("EXCEPTION_OCCURED")}
      [] m = "archive" ->
           {Plain("OK"), WithParameter("NO_SUCH_CONTAINER"),
            WithParameter("CONTAINER_STARTED_CANNOT_MODIFY"),
            WithParameter("INVALID_PATH"), Plain("EXCEPTION_OCCURED")}
      [] m \in {"delete", "rename"} ->
           {Plain("OK"), WithParameter("NO_SUCH_CONTAINER"),
            WithParameter("CONTAINER_STARTED_CANNOT_MODIFY"),
            Plain("EXCEPTION_OCCURED")}

\* cont() and recv(), once for each field of the request.
RECURSIVE FieldSteps(_)
FieldSteps(n) == IF n = 0 THEN <<>> ELSE <<Send(Msg("CONT")), Recv>> \o FieldSteps(n - 1)

\* start_connection and the handler: READY, the request, the fields, then
\* the reply.
HandlerSteps(m, argc, reply) ==
    <<Send(Msg("READY")), Recv>> \o FieldSteps(FieldCount(m, argc)) \o reply

\* The typed errors whose constructor, given the socket, answers CONT and
\* receives the parameter the server sends after the keyword.
CarriesParameter(e) ==
    e \in {"UnknownRequestError", "ContainerNotStartedError", "UnknownContainerError",
           "ContainerStartedCannotModify", "InvalidPathError", "SockIsADirectoryError"}

\* The connection of one call: server is what the handler has still to do
\* on the socket, step where the method is, fields the fields it has still
\* to send, c2s and s2c the messages in flight either way, result the
\* exception the method raises.
NewLink(m, argc, reply) ==
    [pc |-> "open", method |-> m, server |-> HandlerSteps(m, argc, reply),
     step |-> "ready", fields |-> FieldCount(m, argc),
     c2s |-> <<>>, s2c |-> <<>>, result |-> ""]

linkFrame == <<containers, objs, nobj, dirs, startup_mutex, mainVars, nconn, workerVars,
               startedSince, launchVars, dirFiles, wire, bridge, client, io, boot, cfg, alloc,
               frames>>

LinkStep(r) == link' = r /\ UNCHANGED linkFrame

\* The method has returned or raised; its socket is closed or dropped.
ClientEnded == link.step \in {"returned", "raised"}

\* A method is called and the daemon accepts its connection.
Link_Call(m, argc, reply) ==
    /\ link.pc = "none"
    /\ m \in Methods /\ argc \in 0..MaxArgv /\ reply \in Replies(m)
    /\ m # "run_command" => argc = 0
    /\ LinkStep(NewLink(m, argc, reply))

\* The next statement of the handler is a send.
Link_ServerSend ==
    /\ link.pc = "open" /\ link.server # <<>> /\ Head(link.server).dir = "send"
    /\ LinkStep([link EXCEPT !.server = Tail(@),
                             !.s2c = Append(@, Head(link.server).msg)])

\* The next statement of the handler is a recv: it takes the message in
\* flight, or returns b"" when the client has gone.
Link_ServerRecv ==
    /\ link.pc = "open" /\ link.server # <<>> /\ Head(link.server).dir = "recv"
    /\ link.c2s # <<>> \/ ClientEnded
    /\ LinkStep([link EXCEPT !.server = Tail(@),
                             !.c2s = IF @ = <<>> THEN @ ELSE Tail(@)])

\* recv_expect did not get what it expected and get_server_error raises e:
\* an error with a parameter fetches it first.
LinkRaise(l, e) ==
    IF CarriesParameter(e)
    THEN [l EXCEPT !.step = "parameter", !.result = e, !.c2s = Append(@, Msg("CONT"))]
    ELSE [l EXCEPT !.step = "raised", !.result = e]

\* A receive of the method returns msg: _make_connection (client 340-341),
\* a recv_expect(b"CONT") followed by the send of the next field, the last
\* receive of the method, or the receive of an error's parameter.
LinkRecv(l, msg) ==
    CASE l.step = "ready" ->
           IF recv_expect({"READY"}, msg) = ""
           THEN [l EXCEPT !.step = IF l.fields = 0 THEN "final" ELSE "cont",
                          !.c2s = Append(@, Msg(Keyword(l.method)))]
           ELSE LinkRaise(l, recv_expect({"READY"}, msg))
      [] l.step = "cont" ->
           IF recv_expect({"CONT"}, msg) = ""
           THEN [l EXCEPT !.step = IF l.fields = 1 THEN "final" ELSE "cont",
                          !.fields = @ - 1,
                          !.c2s = Append(@, Msg("field"))]
           ELSE LinkRaise(l, recv_expect({"CONT"}, msg))
      [] l.step = "final" ->
           IF FinalRecv(l.method, msg) = "" THEN [l EXCEPT !.step = "returned"]
           ELSE IF l.method = "ssh_address"
           THEN [l EXCEPT !.step = "raised", !.result = FinalRecv(l.method, msg)]
           ELSE LinkRaise(l, FinalRecv(l.method, msg))
      [] l.step = "parameter" -> [l EXCEPT !.step = "raised"]

Link_ClientRecv ==
    /\ link.pc = "open" /\ ~ClientEnded /\ link.s2c # <<>>
    /\ LinkStep(LinkRecv([link EXCEPT !.s2c = Tail(@)], Head(link.s2c)))

InitLink ==
    /\ InitGuestDaemon /\ io = NoIo /\ boot = NoBoot /\ cfg = NoCfg /\ alloc = NoAlloc
    /\ frames = NoFrames /\ link = NoLink

NextLink ==
    \/ \E m \in Methods, argc \in 0..MaxArgv :
          \E reply \in Replies(m) : Link_Call(m, argc, reply)
    \/ Link_ServerSend
    \/ Link_ServerRecv
    \/ Link_ClientRecv

SpecLink == InitLink /\ [][NextLink]_vars

\* ------------------------------------------------------------------ claims

\* Handler positions between startup_mutex.acquire() and its release.
InStartup == {"start_check", "start_new", "start_call", "boot_spawn", "boot_expect",
              "boot_failed", "ssh_open"}

\* C1: with only START (and STARTED) requests in flight, in any interleaving,
\* at most one handler is between acquire and release of the startup mutex,
\* at most one Container is ever constructed for a name, that object is the
\* one the live map holds for the name, and at most one QEMU child of the
\* name is alive.
C1_StartSerialized ==
    /\ Cardinality({w \in Workers : pc[w] \in InStartup}) <= 1
    /\ \A w \in Workers : pc[w] \in InStartup => startup_mutex = w
    /\ \A n \in Names :
         /\ Cardinality(Constructed(n)) <= 1
         /\ \A i \in Constructed(n) : containers[n] = i
         /\ Cardinality({i \in Constructed(n) : objs[i].booter = "alive"}) <= 1

\* A START of a name waits for the mutex while another START of that name has
\* constructed the container and is booting it.
C1_Witness ==
    \E w \in Workers, v \in Workers :
       /\ w # v /\ op[w] = "START" /\ op[v] = "START" /\ arg[w] = arg[v]
       /\ pc[w] = "boot_expect" /\ pc[v] = "start_acquire"
       /\ Cardinality(Constructed(arg[w])) = 1

\* C2: when the boot of START(N) fails, the handler ends with BOOT_FAILURE
\* sent and N no longer in the live map.
C2_BootFailureRemoves ==
    [][\A w \in Workers :
         (pc[w] = "boot_failed" /\ pc'[w] = "done")
            => /\ sent'[w] = <<"BOOT_FAILURE">>
               /\ containers'[arg[w]] = NoObj]_vars

\* C3: a START of a name whose container is in the live map and running
\* (booted, SSH session open) replies OK and changes neither the live map
\* nor any Container object, and spawns nothing.
C3_StartIdempotent ==
    [][\A w \in Workers :
         (/\ pc[w] = "start_check" /\ pc'[w] # "start_check"
          /\ containers[arg[w]] # NoObj
          /\ objs[containers[arg[w]]].sshi = "open")
            => /\ pc'[w] = "done" /\ sent'[w] = <<"OK">>
               /\ containers' = containers /\ objs' = objs /\ nobj' = nobj]_vars

\* Two STARTs of one name have both been answered OK and one Container was
\* constructed, which is running.
C3_Witness ==
    \E w \in Workers, v \in Workers :
       /\ w # v /\ op[w] = "START" /\ op[v] = "START" /\ arg[w] = arg[v]
       /\ pc[w] = "done" /\ pc[v] = "done"
       /\ sent[w] = <<"OK">> /\ sent[v] = <<"OK">>
       /\ nobj = 1 /\ containers[arg[w]] = 1
       /\ objs[1].sshi = "open" /\ objs[1].booter = "alive"

\* C4: a STOP or KILL whose membership test finds the name absent replies
\* CONTAINER_NOT_STARTED and nothing else, and leaves the live map and every
\* Container object as they were.
C4_NotStarted ==
    [][\A w \in Workers :
         (/\ pc[w] \in {"stop_check", "kill_check"} /\ pc'[w] # pc[w]
          /\ containers[arg[w]] = NoObj)
            => /\ pc'[w] = "done" /\ sent'[w] = <<"CONTAINER_NOT_STARTED">>
               /\ containers' = containers /\ objs' = objs]_vars

\* A STOP and a KILL have both been answered CONTAINER_NOT_STARTED.
C4_Witness ==
    \E w \in Workers, v \in Workers :
       /\ op[w] = "STOP" /\ op[v] = "KILL"
       /\ pc[w] = "done" /\ pc[v] = "done"
       /\ sent[w] = <<"CONTAINER_NOT_STARTED">>
       /\ sent[v] = <<"CONTAINER_NOT_STARTED">>

\* C5: once OK has been sent for a STOP or KILL of N, N is not in the live
\* map (so STARTED(N) replies NO) unless a START inserted N after the
\* handler's own delete.
C5_RemovedBeforeOk ==
    \A w \in Workers :
       (op[w] \in {"STOP", "KILL"} /\ sent[w] = <<"OK">>)
          => (containers[arg[w]] = NoObj \/ startedSince[w])

\* A STOP was answered OK and a later STARTED of the same name NO.
C5_Witness ==
    \E w \in Workers, v \in Workers :
       /\ op[w] = "STOP" /\ sent[w] = <<"OK">> /\ ~startedSince[w]
       /\ op[v] = "STARTED" /\ arg[v] = arg[w] /\ sent[v] = <<"NO">>

\* C6: when the poweroff of STOP(N) fails (an SSH error, or the poweroff
\* timeout), the container's QEMU process is terminated, its SSH session and
\* boot log are closed and N leaves the live map.
C6_StopEscalates ==
    [][\A w \in Workers :
         (/\ pc[w] \in {"stop_call", "stop_wait"}
          /\ exc'[w] \in {"SSHException", "PoweroffTimeoutExceededError"})
            => LET o == containers[arg[w]] IN
               /\ objs'[o].booter = "dead"
               /\ objs'[o].sshi = "closed"
               /\ objs'[o].log = "closed"
               /\ containers'[arg[w]] = NoObj]_vars

\* C7: after the halt-driven shutdown has completed, no QEMU child of the
\* daemon is alive.
C7_NoQemuAfterHalt == mainpc = "exited" => AliveObjs = {}

\* C8: when the daemon ends after the halt event, every container that was
\* in the live map has been visited and the info file is removed.
C8_HaltVisitsAll ==
    mainpc \in {"exited", "crashed"}
       => (haltSnap \subseteq haltVisited /\ infoFile = NoFile)

\* C9: a daemon process that has ended (shutdown, PANIC, or an exception
\* during shutdown) has removed its info file.
C9_InfoFileRemoved == ~DaemonUp => infoFile = NoFile

\* C10: at most one launched daemon is serving at any time.
C10_SingleDaemon == Cardinality({d \in Clis : dpc[d] = "serving"}) <= 1

\* C11: every PANIC request ends with the info file removed and the daemon
\* process aborted, whether or not each kill of a QEMU process succeeded.
C11_PanicAborts ==
    [][\A w \in Workers :
         (pc[w] = "panic" /\ (pc'[w] = "done" \/ mainpc' = "aborted"))
            => (infoFile' = NoFile /\ mainpc' = "aborted")]_vars

\* Handler positions of DELETE, ARCHIVE and RENAME.
InFsHandler ==
    {"delete_isdir", "delete_check", "delete_rmtree", "archive_isdir", "archive_check",
     "archive_tar", "rename_isdir", "rename_check", "rename_do"}

\* C12: a step of a DELETE, ARCHIVE or RENAME handler of a name that is in
\* the live map leaves the container directories untouched, and when it ends
\* the request the reply is CONTAINER_STARTED_CANNOT_MODIFY.
C12_StartedCannotModify ==
    [][\A w \in Workers :
         (/\ pc[w] \in InFsHandler /\ pc'[w] # pc[w]
          /\ containers[arg[w]] # NoObj)
            => /\ dirs' = dirs /\ dirFiles' = dirFiles
               /\ pc'[w] = "done" => sent'[w] = <<"CONTAINER_STARTED_CANNOT_MODIFY">>]_vars

\* C13: an INSTALL naming a container directory that exists is not answered
\* OK and changes neither the directory nor its files.
C13_InstallRejectsExisting ==
    [][\A w \in Workers :
         (pc[w] = "install" /\ pc'[w] = "done" /\ arg[w] \in dirs)
            => /\ sent'[w] # <<"OK">>
               /\ dirs' = dirs /\ dirFiles' = dirFiles]_vars

\* C14: on every accepted connection the first thing on the wire is the
\* server's READY: nothing is sent before it and nothing is received before
\* it.
C14_ReadyFirst ==
    \A w \in Workers :
       /\ wire[w] # <<>> => wire[w][1] = Snd("READY")
       /\ pc[w] \in {"conn_recv", "conn_ping", "conn_started", "conn_unknown"}
             => (wire[w] # <<>> /\ wire[w][1] = Snd("READY"))

\* A connection on which READY was sent, a request received and answered.
C14_Witness ==
    \E w \in Workers :
       /\ pc[w] = "done" /\ Len(wire[w]) >= 3
       /\ wire[w][1] = Snd("READY") /\ wire[w][2].dir = "R"

\* C15: a request is concluded by exactly one terminal reply: at most one
\* terminal keyword is ever sent on a connection, and a finished handler has
\* sent one.  A START of a name without a directory sends NO_SUCH_CONTAINER
\* and nothing else.
C15_OneTerminalReply ==
    \A w \in Workers :
       /\ Len(sent[w]) <= 1
       /\ (pc[w] = "done" /\ op[w] \in NamedOps) => Len(sent[w]) = 1

\* C16: when an exception leaves a request handler, EXCEPTION_OCCURED is the
\* keyword sent for it, the connection is finished and the daemon and its
\* accept loop keep running.
C16_ExceptionOccured ==
    [][\A w \in Workers :
         (exc'[w] # exc[w] /\ exc'[w] # "" /\ pc'[w] = "done")
            => /\ sent'[w] = Append(sent[w], "EXCEPTION_OCCURED")
               /\ mainpc' = "wait" /\ acceptAlive']_vars

\* C17: a RUN-COMMAND naming a container that is not in the live map is
\* answered CONTAINER_NOT_STARTED and nothing else.
C17_RunNotStarted ==
    [][\A w \in Workers :
         (pc[w] = "run_check" /\ pc'[w] # "run_check" /\ containers[arg[w]] = NoObj)
            => (pc'[w] = "done" /\ sent'[w] = <<"CONTAINER_NOT_STARTED">>)]_vars

\* C18: an UPDATE-HOSTKEY naming a container that is in the live map with
\* its SSH session open, within its directory, writes a fresh key pair and,
\* the guest accepting the key, replies OK.
C18_HostkeyRotates ==
    [][\A w \in Workers :
         (/\ pc[w] = "hostkey" /\ pc'[w] = "done"
          /\ containers[arg[w]] # NoObj
          /\ objs[containers[arg[w]]].sshi = "open"
          /\ arg[w] \in dirs)
            => /\ dirFiles'[arg[w]].id_rsa = "rotated"
               /\ sent'[w] \in {<<"OK">>, <<"EXCEPTION_OCCURED">>}]_vars

\* The receive thread of the bridge has ended, or both output pumps have.
BridgeTriggered(b) == ~b.t_recv \/ (~b.t_send_stdout /\ ~b.t_send_stderr)

\* kill -9 is issued at most once per bridge, only after the loop broke and
\* the client socket was closed, and the bridge is finished exactly when it
\* has issued it.
BridgeKillOnce ==
    \A w \in Workers :
       /\ bridge[w].kills <= 1
       /\ bridge[w].kills = 1 <=> bridge[w].pc = "done"
       /\ bridge[w].pc \in {"closed", "done"} => bridge[w].client_sock = "closed"
       /\ bridge[w].delivered <= bridge[w].kills

\* C20: once the receive thread has seen the connection closed, or both
\* output pumps have drained, the bridge stops, closes the client socket and
\* issues kill -9 for the guest PID, exactly once; a client disconnect
\* during RUN-COMMAND leads to that.
C20_BridgeKills ==
    /\ []BridgeKillOnce
    /\ \A w \in Workers :
          /\ (bridge[w].pc = "loop" /\ BridgeTriggered(bridge[w]))
                ~> (bridge[w].kills = 1 /\ bridge[w].client_sock = "closed")
          /\ (bridge[w].pc = "loop" /\ bridge[w].peer = "closed")
                ~> (bridge[w].kills = 1 /\ bridge[w].client_sock = "closed")

\* The client disconnected, the receive thread ended on it while both
\* output pumps were still running, and the bridge closed the socket and
\* issued the kill, which reached the guest.
C20_Witness ==
    \E w \in Workers :
       /\ bridge[w].pc = "done" /\ bridge[w].peer = "closed"
       /\ ~bridge[w].t_recv /\ bridge[w].t_send_stdout /\ bridge[w].t_send_stderr
       /\ bridge[w].client_sock = "closed"
       /\ bridge[w].kills = 1 /\ bridge[w].delivered = 1

\* C19: a call of a client-library method that received one of the error
\* keywords as the daemon's answer has failed with the typed error of that
\* keyword.
C19_TypedErrors ==
    (/\ client.step \in {"returned", "raised"}
     /\ Len(client.reply) = 1 /\ client.reply[1] \in ErrorKeywords)
       => (client.step = "raised" /\ client.result = get_server_error(client.reply[1]))

\* The bytes of stream id among pairs, a sequence of <<stream, byte>>.
RECURSIVE StreamOf(_, _)
StreamOf(pairs, id) ==
    IF pairs = <<>> THEN <<>>
    ELSE (IF Head(pairs)[1] = id THEN <<Head(pairs)[2]>> ELSE <<>>)
            \o StreamOf(Tail(pairs), id)

\* C21: what the client writes out for stdout, and for stderr, is at any
\* time a beginning of what the guest command wrote on that stream, and
\* once the client's reader has ended it is every byte the server framed
\* for the stream, however the frames were cut into reads.
C21_OutputFaithful ==
    /\ IsPrefix(StreamOf(io.written, 1), io.out0)
    /\ IsPrefix(StreamOf(io.written, 2), io.err0)
    /\ (io.c_recv = "done" /\ io.pc # "raised")
          => \A id \in {1, 2} : StreamOf(io.written, id) = StreamOf(io.wrote, id)

\* C22: what the server wrote to the guest's stdin is at any time a
\* beginning of the lines the client sent, and all of them once every byte
\* in flight was received, however the chunks were cut into reads.
C22_StdinFaithful ==
    /\ IsPrefix(io.stdin, io.typed)
    /\ io.c2s = <<>> => io.stdin = io.typed

\* C23: after BEGIN, the bytes the server has written to the socket are a
\* concatenation of whole frames: an even number of bytes, each at an odd
\* position a stream id 0, 1 or 2.
C23_WholeFrames ==
    LET b == Flatten(io.wrote) IN
    /\ Len(b) % 2 = 0
    /\ \A i \in 1..Len(b) : i % 2 = 1 => b[i] \in {0, 1, 2}

\* Both output streams of the guest command have reached end-of-file and
\* their pumps have returned.
GuestDrained ==
    /\ io.pc \in {"loop", "closed", "done"}
    /\ \A t \in {"stdout", "stderr"} : io.pos[t] = "done" /\ io.src[t] = <<>>

\* C24: once the guest command has completed and both its streams are at
\* end-of-file, the server closes the connection, run_command returns with
\* the reader and the sender of the client ended, and no thread of the
\* bridge is left.
C24_RunReturns ==
    GuestDrained ~> (/\ io.pc = "done" /\ io.client_sock = "closed"
                     /\ io.c_recv = "done" /\ io.c_send = "done"
                     /\ io.t_recv = "done" /\ io.pos["null"] = "done")

\* C25: while the QEMU child of a container exists, the SSH host port
\* allocated for it is none of the host ports of its portfwd, so the host
\* ports of the hostfwd argument are pairwise distinct.
C25_HostPortsDistinct ==
    boot.pc \in {"expect", "ssh", "started"}
       => /\ boot.ex_port \notin HostPorts(boot.portfwd)
          /\ \A i, j \in 1..Len(boot.cmd) : i # j => boot.cmd[i] # boot.cmd[j]

\* C26: start makes at most max_retries boot attempts and allocates the
\* SSH host port anew for each; it raises PortAllocationError only after
\* max_retries attempts that all collided, raises any other boot failure
\* at the attempt it happened in, every attempt before having collided, and
\* on success opens the SSH session to the port of the attempt that reached
\* the login prompt, the last one.
C26_BootRetries ==
    /\ boot.pc # "none" =>
          /\ boot.attempts <= max_retries
          /\ boot.allocs = (IF boot.pc = "popen" THEN boot.attempts + 1 ELSE boot.attempts)
          /\ boot.collided <= boot.attempts
    /\ boot.pc = "alloc" => boot.collided = boot.attempts
    /\ (boot.pc = "failed" /\ boot.exc = "PortAllocationError")
          => boot.attempts = max_retries /\ boot.collided = max_retries
    /\ (boot.pc = "failed" /\ boot.exc = "BootFailure")
          => boot.collided = boot.attempts - 1
    /\ boot.pc \in {"ssh", "started"}
          => boot.collided = boot.attempts - 1 /\ boot.login_port = boot.ex_port
    /\ boot.pc = "started"
          => boot.ssh_port = boot.login_port /\ boot.cmd[Len(boot.cmd)] = boot.ssh_port

\* A start that succeeded at its last attempt after max_retries - 1
\* collisions, on a port other than the first one allocated.
C26_Witness ==
    /\ boot.pc = "started" /\ boot.attempts = max_retries
    /\ boot.collided = max_retries - 1
    /\ boot.ssh_port # PortLow

\* The dictionary carries a known manifest version, and the construction
\* has been attempted.
KnownVersion(manifest) == InRange(manifest["manifest"], 0, MANIFEST_VERSION + 1)
Attempted == cfg.pc \in {"constructed", "failed", "dumped", "reparsed"}

\* The messages the portfwd checks append.
PortfwdMessages ==
    {"'portfwd' must be an array.", "The 'portfwd' argument is malformed.",
     "Invalid port", "Virtual port used more than once.", "Host port used more than once."}

\* The rule for portfwd: a list of pairs of integers, every port in
\* [1, 65535] and not 22, guest ports pairwise distinct, host ports
\* pairwise distinct.  A dictionary without the key has no forwards.
PortOk(e) == e.t = "int" /\ 1 <= e.n /\ e.n <= 65535 /\ e.n # 22
PortfwdRule(v) ==
    \/ v.t = "absent"
    \/ /\ v.t = "list"
       /\ \A i \in 1..Len(v.l) :
             Len(v.l[i]) = 2 /\ PortOk(v.l[i][1]) /\ PortOk(v.l[i][2])
       /\ \A i, j \in 1..Len(v.l) :
             i # j => v.l[i][1].n # v.l[j][1].n /\ v.l[i][2].n # v.l[j][2].n

\* C27: whenever the construction gets to check portfwd, it reports no
\* portfwd error exactly when portfwd is a list of two-integer pairs whose
\* guest and host ports all lie in [1, 65535], are not 22, and are
\* pairwise distinct among the guest ports and among the host ports.
C27_PortfwdAcceptedIff ==
    (Attempted /\ KnownVersion(cfg.manifest) /\ cfg.config.exc \in {"", "InvalidConfigError"})
       => ((\A i \in 1..Len(cfg.config.errors) : cfg.config.errors[i] \notin PortfwdMessages)
             <=> PortfwdRule(cfg.manifest["portfwd"]))

\* The field rules a dictionary violates: arch outside the supported set,
\* hostname not matching the pattern, memory or hddmaxsize not a positive
\* integer, password missing or not a string.
PositiveInteger(v) == IsInt(v) /\ v.n > 0
FieldViolations(manifest) ==
    {r \in {"arch", "hostname", "memory", "hddmaxsize", "password"} :
        CASE r = "arch" -> ~(manifest[r].t = "str" /\ manifest[r].s \in SUPPORTED_ARCHS)
          [] r = "hostname" -> Has(manifest, r)
                                 /\ ~(manifest[r].t = "str" /\ fullmatch(manifest[r].s))
          [] r \in {"memory", "hddmaxsize"} -> ~PositiveInteger(manifest[r])
          [] r = "password" -> manifest[r].t # "str"}

\* C28: the construction from a dictionary of a known manifest version
\* that violates a field rule (arch, hostname, memory, hddmaxsize,
\* password) fails.
C28_ViolationFails ==
    (Attempted /\ KnownVersion(cfg.manifest) /\ FieldViolations(cfg.manifest) # {})
       => cfg.config.exc # ""

\* Every rule a dictionary violates, a missing or non-string hostname and
\* the portfwd rule included, and the messages that report each.
Violations(manifest) ==
    FieldViolations(manifest)
       \cup (IF ~Has(manifest, "hostname") THEN {"hostname"} ELSE {})
       \cup (IF ~PortfwdRule(manifest["portfwd"]) THEN {"portfwd"} ELSE {})

Reports(msg, r) ==
    CASE r = "arch" -> msg \in {"'arch' is not an optional field.", "not a valid architecture."}
      [] r = "hostname" -> msg = "Invalid hostname"
      [] r \in {"memory", "hddmaxsize"} ->
            msg \in {"'" \o r \o "' is not an optional field.",
                      "'" \o r \o "' must be an integer."}
      [] r = "portfwd" -> msg \in PortfwdMessages
      [] r = "password" -> msg \in {"'password' is not an optional field.",
                                    "'password' must be a string."}

\* C29: the construction from a dictionary of a known manifest version
\* that violates one or more rules fails with InvalidConfigError, and the
\* error lists a message for every rule violated.
C29_AllViolationsListed ==
    (Attempted /\ KnownVersion(cfg.manifest) /\ Violations(cfg.manifest) # {})
       => /\ cfg.config.exc = "InvalidConfigError"
          /\ \A r \in Violations(cfg.manifest) :
                \E i \in 1..Len(cfg.config.errors) : Reports(cfg.config.errors[i], r)

\* C30: the dictionary to_dict gives for a constructed config is accepted
\* by the constructor, and to_dict of the config it makes is that same
\* dictionary.
C30_ToDictFixedPoint ==
    cfg.pc = "reparsed" => cfg.again.exc = "" /\ cfg.dict2 = cfg.dict

\* The historical literal was upgraded, dumped with its legacy mark, and
\* parsed again.
C30_Witness ==
    /\ cfg.pc = "reparsed"
    /\ cfg.manifest = LEGACY_CT_CONFIG
    /\ cfg.dict["__legacy"] = BoolV(TRUE)
    /\ cfg.dict["hostname"] = StrV(Debian)

\* C31: allocate_port(low, high) returns a port of [low, high] that the OS
\* reported free, every lower port of the range having been reported in
\* use, and fails only when every port of the range was reported in use;
\* when the ports in use did not change during the call, it returns the
\* smallest port of the range that was free when it was called, and fails
\* exactly when there was none.
C31_LowestFreePort ==
    LET range == alloc.low..alloc.high
        free_at_call == {q \in range : q \notin alloc.at_call}
    IN
    /\ alloc.pc = "returned" =>
          /\ alloc.result \in range
          /\ alloc.result \in alloc.free
          /\ \A q \in alloc.low..(alloc.result - 1) : q \in alloc.busy
    /\ alloc.pc = "failed" => \A q \in range : q \in alloc.busy
    /\ (alloc.pc \in {"returned", "failed"} /\ ~alloc.changed) =>
          IF free_at_call = {}
          THEN alloc.pc = "failed"
          ELSE /\ alloc.pc = "returned"
               /\ alloc.result \in free_at_call
               /\ \A q \in free_at_call : alloc.result <= q

\* The call returned high, the only free port of a range of several ports,
\* while nothing changed.
C31_Witness ==
    /\ alloc.pc = "returned" /\ ~alloc.changed
    /\ alloc.low < alloc.high /\ alloc.result = alloc.high
    /\ \A q \in alloc.low..(alloc.high - 1) : q \in alloc.at_call

\* The container-name pattern [A-Za-z0-9_]+ matched in full.
NamePattern(n) ==
    /\ Len(NameChars(n)) >= 1
    /\ \A i \in 1..Len(NameChars(n)) : NameChars(n)[i] \in WordChars

\* C32: a RENAME that renames a directory or is answered OK has an old and
\* a new name that both match the container-name pattern in full, and an
\* old name that is not in the live map.
C32_RenameValidNames ==
    [][\A w \in Workers, new_name \in DirNames :
         (Rename_Do(w, new_name) /\ (dirs' # dirs \/ sent'[w] = <<"OK">>))
            => /\ NamePattern(arg[w]) /\ NamePattern(new_name)
               /\ containers[arg[w]] = NoObj]_vars

\* The lifecycle state of the i-th Container object, read off its fields,
\* the live map and the handlers at work on it: Cold before QEMU is
\* spawned, Booting until the SSH session is open, Running then, Stopping
\* while a stop() of it is under way, Killed when its QEMU is dead and it
\* is still in the map, Gone when it is dead and out of the map.
Lifecycle(i) ==
    LET o == objs[i]
        stopping == \E w \in Workers : ref[w] = i /\ pc[w] \in {"stop_wait", "stop_del"}
    IN  IF i > nobj THEN "None"
        ELSE IF o.booter = "none" THEN "Cold"
        ELSE IF o.booter = "dead" /\ containers[o.name] # i THEN "Gone"
        ELSE IF stopping THEN "Stopping"
        ELSE IF o.booter = "dead" THEN "Killed"
        ELSE IF o.sshi = "open" THEN "Running"
        ELSE "Booting"

\* The moves the lifecycle allows, one or several at a time.
LifecycleMoves ==
    {<<"None", "Cold">>,
     <<"Cold", "Booting">>, <<"Cold", "Running">>, <<"Cold", "Stopping">>,
     <<"Cold", "Killed">>, <<"Cold", "Gone">>,
     <<"Booting", "Running">>, <<"Booting", "Stopping">>, <<"Booting", "Killed">>,
     <<"Booting", "Gone">>,
     <<"Running", "Stopping">>, <<"Running", "Killed">>, <<"Running", "Gone">>,
     <<"Stopping", "Gone">>, <<"Killed", "Gone">>}

\* C33: every step leaves the lifecycle state of each Container object as
\* it is or moves it forward along Cold, Booting, Running, Stopping, Gone
\* or along Booting or Running, Killed, Gone.
C33_LifecycleOneWay ==
    [][\A i \in ObjIds :
         \/ Lifecycle(i)' = Lifecycle(i)
         \/ <<Lifecycle(i), Lifecycle(i)'>> \in LifecycleMoves]_vars

\* C34: a STARTED request is answered YES only for a container that is
\* Running: the name is in the live map, and the object found there has a
\* live QEMU whose boot handshake completed and an open SSH session.
C34_LiveIsRunning ==
    [][\A w \in Workers :
         (pc[w] = "started" /\ pc'[w] = "done" /\ sent'[w] = <<"YES">>)
            => /\ containers[arg[w]] # NoObj
               /\ objs[containers[arg[w]]].booter = "alive"
               /\ objs[containers[arg[w]]].sshi = "open"]_vars

\* C35: removal by STOP and KILL is serialized: of the requests naming one
\* running container, at most one at a time is past its membership check
\* with the container's stop or kill action invoked and the entry not yet
\* deleted, so the action runs once per container.
Removing(w) == pc[w] \in {"stop_wait", "stop_del", "kill_del"}

C35_RemovalSerialized ==
    \A w1, w2 \in Workers :
        (w1 # w2 /\ Removing(w1) /\ Removing(w2)) => ref[w1] # ref[w2]

\* C36: the directory of a container that is in the live map (booting
\* included) is never deleted or renamed: no step takes a name out of the
\* container directories while the live map has an entry for it.
C36_LiveDirectoryKept ==
    [][\A n \in Names : (n \in dirs /\ n \notin dirs') => containers[n] = NoObj]_vars

\* The keywords of the dispatch table of start_connection (lines 173-188).
DispatchTable ==
    {"UPDATE-HOSTKEY", "RUN-COMMAND", "SSH-ADDRESS", "GET-FILE", "PUT-FILE",
     "START", "STOP", "KILL", "PING", "INSTALL", "DELETE", "RENAME",
     "STARTED", "ARCHIVE"}

\* C37: UNKNOWN_REQUEST is sent only for a request keyword that is not
\* HALT, PANIC or a keyword of the dispatch table; a failure inside a
\* recognised handler is never answered UNKNOWN_REQUEST.
C37_UnknownOnlyForUnknown ==
    \A w \in Workers :
        (\E k \in 1..Len(sent[w]) : sent[w][k] = "UNKNOWN_REQUEST")
            => op[w] \notin DispatchTable \cup {"HALT", "PANIC"}

\* The statements of _start between acquire (297) and release (317, 320).
InStart == {"start_check", "start_new", "start_call", "boot_spawn",
            "boot_expect", "boot_failed", "ssh_open"}

\* C38: the startup mutex is released on every exit path of the START
\* handler: it is held only by a handler that is between the acquire and
\* the release of _start, never by one that has finished, however it
\* finished, so a later START can acquire it.
C38_MutexReleasedOnExit ==
    /\ startup_mutex # 0 => pc[startup_mutex] \in InStart
    /\ (\A w \in Workers : pc[w] \notin InStart) => startup_mutex = 0

\* A START ended by an exception, and a START on another connection holds
\* the mutex after it.
C38_Witness ==
    \E w1, w2 \in Workers :
        /\ w1 # w2
        /\ op[w1] = "START" /\ pc[w1] = "done" /\ exc[w1] # ""
        /\ "EXCEPTION_OCCURED" \in {sent[w1][k] : k \in 1..Len(sent[w1])}
        /\ op[w2] = "START" /\ startup_mutex = w2 /\ pc[w2] \in InStart

\* C39: at most one pump, over all sessions sharing the frame lock, is
\* between its acquire and its release at any time; the lock is released
\* only by the pump that holds it.
C39_OnePumpInside ==
    /\ Cardinality({p \in PumpIds : frames.inside[p]}) <= 1
    /\ \A p \in PumpIds : frames.inside[p] => frames.mutex = p

\* The method is blocked in a receive with nothing in flight for it, and so
\* is the handler.
BothWaiting ==
    /\ ~ClientEnded /\ link.s2c = <<>>
    /\ link.server # <<>> /\ Head(link.server).dir = "recv" /\ link.c2s = <<>>

\* C40: the client-library method and the server handler of each request
\* exchange their messages in lock-step: the two ends are never both
\* waiting to receive, and when the method has returned or raised, the
\* handler has nothing left to send or to receive on the connection and no
\* message is in flight.
C40_LockStep ==
    link.pc = "open" =>
        /\ ~BothWaiting
        /\ ClientEnded => (link.server = <<>> /\ link.s2c = <<>> /\ link.c2s = <<>>)

====
